---- MODULE Spec2Model ----
(***************************************************************************)
(* A model of the recipe enrichment pipeline.  Two variants of the         *)
(* pipeline live in the repository and both are modelled:                  *)
(*   variant 0  src/unnamed/part_000  cache, circuit breaker, rule-based   *)
(*              fallback, recipes of a batch processed concurrently;       *)
(*   variant 1  src/unnamed/part_001  validateAnalysis, three refresh      *)
(*              modes, recipes of a batch processed one after the other.   *)
(* Definitions that exist in both carry the suffix 0 or 1.                 *)
(*                                                                         *)
(* Representation.  A JavaScript string the code inspects (a recipe name,  *)
(* an ingredient line, an ingredient name) is a sequence of one-character  *)
(* strings, so that toLowerCase and includes are computed.  A string the   *)
(* code only passes on or compares (a meal, a cuisine, a tag, a URL) is a  *)
(* TLA+ string.  A nullable value is a sequence of length at most one:     *)
(* None is null/undefined, Some(x) is x.  A confidence is in percent.      *)
(*                                                                         *)
(* Several specifications share the variables.  SpecUnit applies the       *)
(* classifiers and the diff to drawn inputs, SpecTitle applies             *)
(* standardizeTitle to drawn titles, SpecRetry runs withRetry on a         *)
(* callback whose outcomes are drawn, SpecKeys applies                     *)
(* extractKeyIngredientsFromList to drawn lists.  Spec runs the process:   *)
(* the                                                                     *)
(* handler, the batch, the per-recipe callbacks with every await as a      *)
(* step, the breaker, the cache, the record store and the clock.  Each     *)
(* keeps the others' variables fixed.  Requests are handled one at a time. *)
(* The environment variables other than OPENAI_API_KEY are taken as set.   *)
(***************************************************************************)
EXTENDS Integers, Sequences, FiniteSets, TLC

VARIABLES
    (* the classifiers and the diff applied to drawn inputs (SpecUnit) *)
    u_variant, u_recipe, u_extracted, u_raw, u_stage, u_source, u_analysis,
    u_changes,
    (* standardizeTitle applied to drawn titles (SpecTitle) *)
    t_title, t_once, t_twice, t_stage,
    (* withRetry applied to a callback whose outcomes are drawn (SpecRetry) *)
    retry,
    (* extractKeyIngredientsFromList applied to drawn lists (SpecKeys) *)
    keyrun,
    (* the pipeline: the process, its record store and the request it handles *)
    variant,    \* 0 or 1: which variant of the pipeline runs
    mode,       \* the request: "notion", "website", "ai" (GET ?refresh=), "run", "post"
    now,        \* Date.now(), in ms
    ticks,      \* idle periods so far
    hasKey,     \* OPENAI_API_KEY is set
    breaker,    \* circuitBreaker: [failures, lastFailTime]
    cache,      \* the Map cache: key -> [data, timestamp]
    store,      \* the database: the pages, by id
    h_store,    \* history: the database when the request arrived
    phase,      \* where the handler is suspended
    timer,      \* when withTimeout's timer of the handler's awaited call fires
    post,       \* the updateRecipe request: [id, updates]
    requests,   \* requests so far
    candidates, \* what getIncompleteRecipes returned
    tasks,      \* the per-recipe callbacks of the batch
    results,    \* reviewItems
    response,   \* the response sent, if any
    h_streak,   \* history: failed AI calls since the last successful one
    h_lastFail, \* history: when the last AI call failed
    h_calls     \* history: AI calls of variant 0 answered so far

unitVars == <<u_variant, u_recipe, u_extracted, u_raw, u_stage, u_source,
              u_analysis, u_changes, t_title, t_once, t_twice, t_stage, retry, keyrun>>

pipeVars == <<variant, mode, now, ticks, hasKey, breaker, cache, store, h_store, phase,
              timer, post, requests, candidates, tasks, results, response, h_streak,
              h_lastFail, h_calls>>

vars == <<unitVars, pipeVars>>

---------------------------------------------------------------------------
(* Values *)

None == <<>>

Some(x) == <<x>>

Range(s) == {s[i] : i \in 1..Len(s)}

UpperChars == <<"A", "B", "C", "D", "E", "F", "G", "H", "I", "J", "K", "L", "M",
                "N", "O", "P", "Q", "R", "S", "T", "U", "V", "W", "X", "Y", "Z">>

LowerChars == <<"a", "b", "c", "d", "e", "f", "g", "h", "i", "j", "k", "l", "m",
                "n", "o", "p", "q", "r", "s", "t", "u", "v", "w", "x", "y", "z">>

toLowerCaseChar(c) ==
    IF \E i \in 1..Len(UpperChars) : UpperChars[i] = c
    THEN LowerChars[CHOOSE i \in 1..Len(UpperChars) : UpperChars[i] = c]
    ELSE c

toLowerCase(s) == [i \in 1..Len(s) |-> toLowerCaseChar(s[i])]

(* String.prototype.includes *)
includes(s, p) ==
    \E i \in 0..(Len(s) - Len(p)) : \A j \in 1..Len(p) : s[i + j] = p[j]

(* Array.prototype.join(' ') *)
RECURSIVE joinSpace(_)
joinSpace(list) ==
    IF Len(list) = 0 THEN <<>>
    ELSE IF Len(list) = 1 THEN list[1]
    ELSE list[1] \o <<" ">> \o joinSpace(Tail(list))

(* Array.prototype.slice(0, n) *)
slice0(list, n) == SubSeq(list, 1, IF Len(list) < n THEN Len(list) ELSE n)

(* Array.prototype.filter *)
RECURSIVE filterIn(_, _)
filterIn(list, allowed) ==
    IF Len(list) = 0 THEN <<>>
    ELSE (IF list[1] \in allowed THEN <<list[1]>> ELSE <<>>)
         \o filterIn(Tail(list), allowed)

(* JavaScript truthiness of a nullable string: null, undefined and '' are falsy *)
TruthyStr(v) == v # None /\ v[1] # ""

(* the same for a string held as a sequence of characters *)
TruthyChars(v) == v # None /\ Len(v[1]) > 0

---------------------------------------------------------------------------
(* Vocabulary Registry *)

CUISINE_OPTIONS ==
    <<"African", "American", "Asian", "Brazilian", "Chinese", "Dessert",
      "French", "German", "Greek", "Hungarian", "Indian", "Italian",
      "Japanese", "Korean", "Mediterranean", "Mexican", "Middle Eastern",
      "Persian", "Peruvian", "Spanish", "Thai", "Vietnamese">>

MEAL_OPTIONS ==
    <<"Main Dish", "Side Dish", "Breakfast", "Dessert", "Snack", "Beverage">>

TAG_OPTIONS ==
    <<"Appetizer", "Baked", "Braised", "Breakfast", "Chocolate", "Citrusy",
      "Condiment", "Creamy", "Curry", "Drink", "Eggs", "Fish", "Grilled",
      "Herby", "No Bake", "Pasta", "Pickled", "Refreshing", "Roasted",
      "Salad", "Sandwich", "Savory", "Seafood", "Soup", "Spicy", "Steamed",
      "Stew", "Stir-Fry", "Sweet", "Tangy", "Traditional", "Vegan", "Vegetarian">>

INGREDIENT_OPTIONS ==
    << <<"B", "e", "e", "f">>, <<"C", "h", "i", "c", "k", "e", "n">>, <<"P", "o", "r", "k">>, <<"F", "i", "s", "h">>,
       <<"S", "a", "l", "m", "o", "n">>, <<"S", "h", "r", "i", "m", "p">>, <<"E", "g", "g", "s">>, <<"C", "h", "e", "e", "s", "e">>,
       <<"P", "a", "s", "t", "a">>, <<"R", "i", "c", "e">>, <<"B", "r", "e", "a", "d">>, <<"P", "o", "t", "a", "t", "o">>,
       <<"T", "o", "m", "a", "t", "o">>, <<"O", "n", "i", "o", "n", "s">>, <<"G", "a", "r", "l", "i", "c">>,
       <<"S", "p", "i", "n", "a", "c", "h">>, <<"B", "r", "o", "c", "c", "o", "l", "i">>, <<"C", "a", "r", "r", "o", "t">>,
       <<"M", "u", "s", "h", "r", "o", "o", "m", "s">>, <<"P", "e", "p", "p", "e", "r", "s">>, <<"L", "e", "m", "o", "n">>,
       <<"B", "a", "s", "i", "l">>, <<"H", "e", "r", "b", "s">>, <<"G", "i", "n", "g", "e", "r">>, <<"C", "h", "i", "l", "i">>,
       <<"B", "e", "a", "n", "s">>, <<"C", "r", "e", "a", "m">>, <<"M", "i", "l", "k">> >>

---------------------------------------------------------------------------
(* Fallback Classifier (variant 0) *)

(* the key -> patterns table, in the table's insertion order *)
ingredientMapping ==
    << [key |-> <<"c", "h", "i", "c", "k", "e", "n">>, patterns |-> {<<"c", "h", "i", "c", "k", "e", "n">>, <<"p", "o", "u", "l", "t", "r", "y">>}],
       [key |-> <<"b", "e", "e", "f">>, patterns |-> {<<"b", "e", "e", "f">>, <<"g", "r", "o", "u", "n", "d", " ", "b", "e", "e", "f">>, <<"s", "t", "e", "a", "k">>}],
       [key |-> <<"p", "o", "r", "k">>, patterns |-> {<<"p", "o", "r", "k">>, <<"b", "a", "c", "o", "n">>, <<"h", "a", "m">>}],
       [key |-> <<"f", "i", "s", "h">>, patterns |-> {<<"f", "i", "s", "h">>, <<"c", "o", "d">>, <<"t", "i", "l", "a", "p", "i", "a">>}],
       [key |-> <<"s", "a", "l", "m", "o", "n">>, patterns |-> {<<"s", "a", "l", "m", "o", "n">>}],
       [key |-> <<"s", "h", "r", "i", "m", "p">>, patterns |-> {<<"s", "h", "r", "i", "m", "p">>, <<"p", "r", "a", "w", "n", "s">>}],
       [key |-> <<"e", "g", "g", "s">>, patterns |-> {<<"e", "g", "g">>, <<"e", "g", "g", "s">>}],
       [key |-> <<"c", "h", "e", "e", "s", "e">>, patterns |-> {<<"c", "h", "e", "e", "s", "e">>, <<"c", "h", "e", "d", "d", "a", "r">>, <<"m", "o", "z", "z", "a", "r", "e", "l", "l", "a">>, <<"p", "a", "r", "m", "e", "s", "a", "n">>}],
       [key |-> <<"p", "a", "s", "t", "a">>, patterns |-> {<<"p", "a", "s", "t", "a">>, <<"s", "p", "a", "g", "h", "e", "t", "t", "i">>, <<"p", "e", "n", "n", "e">>, <<"n", "o", "o", "d", "l", "e", "s">>}],
       [key |-> <<"r", "i", "c", "e">>, patterns |-> {<<"r", "i", "c", "e">>, <<"b", "a", "s", "m", "a", "t", "i">>, <<"j", "a", "s", "m", "i", "n", "e">>}],
       [key |-> <<"b", "r", "e", "a", "d">>, patterns |-> {<<"b", "r", "e", "a", "d">>, <<"f", "l", "o", "u", "r">>, <<"w", "h", "e", "a", "t">>}],
       [key |-> <<"p", "o", "t", "a", "t", "o">>, patterns |-> {<<"p", "o", "t", "a", "t", "o">>, <<"p", "o", "t", "a", "t", "o", "e", "s">>}],
       [key |-> <<"t", "o", "m", "a", "t", "o">>, patterns |-> {<<"t", "o", "m", "a", "t", "o">>, <<"t", "o", "m", "a", "t", "o", "e", "s">>}],
       [key |-> <<"o", "n", "i", "o", "n", "s">>, patterns |-> {<<"o", "n", "i", "o", "n">>, <<"o", "n", "i", "o", "n", "s">>}],
       [key |-> <<"g", "a", "r", "l", "i", "c">>, patterns |-> {<<"g", "a", "r", "l", "i", "c">>}],
       [key |-> <<"s", "p", "i", "n", "a", "c", "h">>, patterns |-> {<<"s", "p", "i", "n", "a", "c", "h">>}],
       [key |-> <<"b", "r", "o", "c", "c", "o", "l", "i">>, patterns |-> {<<"b", "r", "o", "c", "c", "o", "l", "i">>}],
       [key |-> <<"c", "a", "r", "r", "o", "t">>, patterns |-> {<<"c", "a", "r", "r", "o", "t">>, <<"c", "a", "r", "r", "o", "t", "s">>}],
       [key |-> <<"m", "u", "s", "h", "r", "o", "o", "m", "s">>, patterns |-> {<<"m", "u", "s", "h", "r", "o", "o", "m">>, <<"m", "u", "s", "h", "r", "o", "o", "m", "s">>}],
       [key |-> <<"p", "e", "p", "p", "e", "r", "s">>, patterns |-> {<<"p", "e", "p", "p", "e", "r">>, <<"p", "e", "p", "p", "e", "r", "s">>, <<"b", "e", "l", "l", " ", "p", "e", "p", "p", "e", "r">>}],
       [key |-> <<"l", "e", "m", "o", "n">>, patterns |-> {<<"l", "e", "m", "o", "n">>, <<"l", "e", "m", "o", "n", "s">>}],
       [key |-> <<"b", "a", "s", "i", "l">>, patterns |-> {<<"b", "a", "s", "i", "l">>}],
       [key |-> <<"h", "e", "r", "b", "s">>, patterns |-> {<<"h", "e", "r", "b", "s">>, <<"p", "a", "r", "s", "l", "e", "y">>, <<"c", "i", "l", "a", "n", "t", "r", "o">>, <<"o", "r", "e", "g", "a", "n", "o">>}],
       [key |-> <<"g", "i", "n", "g", "e", "r">>, patterns |-> {<<"g", "i", "n", "g", "e", "r">>}],
       [key |-> <<"c", "h", "i", "l", "i">>, patterns |-> {<<"c", "h", "i", "l", "i">>, <<"j", "a", "l", "a", "p", "e", "ñ", "o">>, <<"c", "a", "y", "e", "n", "n", "e">>}],
       [key |-> <<"b", "e", "a", "n", "s">>, patterns |-> {<<"b", "e", "a", "n", "s">>, <<"b", "l", "a", "c", "k", " ", "b", "e", "a", "n", "s">>, <<"k", "i", "d", "n", "e", "y", " ", "b", "e", "a", "n", "s">>}],
       [key |-> <<"c", "r", "e", "a", "m">>, patterns |-> {<<"c", "r", "e", "a", "m">>, <<"h", "e", "a", "v", "y", " ", "c", "r", "e", "a", "m">>}],
       [key |-> <<"m", "i", "l", "k">>, patterns |-> {<<"m", "i", "l", "k">>}] >>

(* INGREDIENT_OPTIONS.find(opt => opt.toLowerCase() === key.toLowerCase()) *)
findIngredientOption(key) ==
    LET hits == {i \in 1..Len(INGREDIENT_OPTIONS) :
                    toLowerCase(INGREDIENT_OPTIONS[i]) = toLowerCase(key)}
    IN  IF hits = {} THEN None
        ELSE Some(INGREDIENT_OPTIONS[CHOOSE i \in hits : \A j \in hits : i <= j])

(* the inner loop over the mapping's entries, for one scraped ingredient *)
RECURSIVE matchMapping(_, _, _)
matchMapping(ingredient, k, keyIngredients) ==
    IF k > Len(ingredientMapping) THEN keyIngredients
    ELSE LET entry == ingredientMapping[k]
             hit == \E p \in entry.patterns : includes(ingredient, p)
             mapped == findIngredientOption(entry.key)
             next == IF hit /\ mapped # None /\ mapped[1] \notin Range(keyIngredients)
                     THEN Append(keyIngredients, mapped[1])
                     ELSE keyIngredients
         IN  matchMapping(ingredient, k + 1, next)

(* the outer loop, with its break once five names are collected *)
RECURSIVE scanScraped(_, _)
scanScraped(scraped, keyIngredients) ==
    IF Len(scraped) = 0 THEN keyIngredients
    ELSE LET next == matchMapping(toLowerCase(scraped[1]), 1, keyIngredients)
         IN  IF Len(next) >= 5 THEN next ELSE scanScraped(Tail(scraped), next)

extractKeyIngredientsFromList(scrapedIngredients) ==
    LET keyIngredients == scanScraped(slice0(scrapedIngredients, 10), <<>>)
    IN  IF Len(keyIngredients) > 0 THEN Some(keyIngredients) ELSE None

(* inferTagsFromNameAndIngredients looking for meat in the ingredients only *)
inferTagsFromNameAndIngredients_MeatListed(name, ingredients) ==
    LET ingredientText == toLowerCase(joinSpace(ingredients))
        If(c, t) == IF c THEN <<t>> ELSE <<>>
        hasMeat == \E meat \in {<<"c", "h", "i", "c", "k", "e", "n">>, <<"b", "e", "e", "f">>, <<"p", "o", "r", "k">>, <<"f", "i", "s", "h">>, <<"s", "a", "l", "m", "o", "n">>, <<"s", "h", "r", "i", "m", "p">>} :
                       includes(ingredientText, meat)
        tags ==
            If(includes(name, <<"b", "a", "k", "e", "d">>) \/ includes(name, <<"b", "a", "k", "i", "n", "g">>), "Baked")
            \o If(includes(name, <<"g", "r", "i", "l", "l", "e", "d">>) \/ includes(name, <<"g", "r", "i", "l", "l">>), "Grilled")
            \o If(includes(name, <<"r", "o", "a", "s", "t", "e", "d">>) \/ includes(name, <<"r", "o", "a", "s", "t">>), "Roasted")
            \o If(includes(name, <<"s", "t", "i", "r", " ", "f", "r", "y">>) \/ includes(name, <<"s", "t", "i", "r", "-", "f", "r", "y">>), "Stir-Fry")
            \o If(includes(name, <<"s", "t", "e", "a", "m", "e", "d">>), "Steamed")
            \o If(includes(name, <<"b", "r", "a", "i", "s", "e", "d">>), "Braised")
            \o If(includes(name, <<"s", "a", "l", "a", "d">>), "Salad")
            \o If(includes(name, <<"s", "o", "u", "p">>), "Soup")
            \o If(includes(name, <<"s", "a", "n", "d", "w", "i", "c", "h">>), "Sandwich")
            \o If(includes(name, <<"p", "a", "s", "t", "a">>), "Pasta")
            \o If(includes(name, <<"c", "u", "r", "r", "y">>), "Curry")
            \o If(includes(name, <<"s", "p", "i", "c", "y">>) \/ includes(ingredientText, <<"c", "h", "i", "l", "i">>)
                  \/ includes(ingredientText, <<"p", "e", "p", "p", "e", "r">>), "Spicy")
            \o If(includes(name, <<"s", "w", "e", "e", "t">>) \/ includes(ingredientText, <<"s", "u", "g", "a", "r">>)
                  \/ includes(ingredientText, <<"h", "o", "n", "e", "y">>), "Sweet")
            \o If(includes(name, <<"c", "r", "e", "a", "m", "y">>) \/ includes(ingredientText, <<"c", "r", "e", "a", "m">>)
                  \/ includes(ingredientText, <<"c", "h", "e", "e", "s", "e">>), "Creamy")
            \o (IF ~hasMeat /\ ~includes(ingredientText, <<"e", "g", "g">>)
                   /\ ~includes(ingredientText, <<"c", "h", "e", "e", "s", "e">>)
                THEN <<"Vegan">>
                ELSE IF ~hasMeat THEN <<"Vegetarian">> ELSE <<>>)
    IN  IF Len(tags) > 0 THEN Some(slice0(tags, 4)) ELSE None

inferTagsFromNameAndIngredients(name, ingredients) ==
    LET ingredientText == toLowerCase(joinSpace(ingredients))
        If(c, t) == IF c THEN <<t>> ELSE <<>>
        hasMeat == \E meat \in {<<"c", "h", "i", "c", "k", "e", "n">>, <<"b", "e", "e", "f">>, <<"p", "o", "r", "k">>, <<"f", "i", "s", "h">>, <<"s", "a", "l", "m", "o", "n">>, <<"s", "h", "r", "i", "m", "p">>} :
                       includes(name, meat) \/ includes(ingredientText, meat)
        tags ==
            If(includes(name, <<"b", "a", "k", "e", "d">>) \/ includes(name, <<"b", "a", "k", "i", "n", "g">>), "Baked")
            \o If(includes(name, <<"g", "r", "i", "l", "l", "e", "d">>) \/ includes(name, <<"g", "r", "i", "l", "l">>), "Grilled")
            \o If(includes(name, <<"r", "o", "a", "s", "t", "e", "d">>) \/ includes(name, <<"r", "o", "a", "s", "t">>), "Roasted")
            \o If(includes(name, <<"s", "t", "i", "r", " ", "f", "r", "y">>) \/ includes(name, <<"s", "t", "i", "r", "-", "f", "r", "y">>), "Stir-Fry")
            \o If(includes(name, <<"s", "t", "e", "a", "m", "e", "d">>), "Steamed")
            \o If(includes(name, <<"b", "r", "a", "i", "s", "e", "d">>), "Braised")
            \o If(includes(name, <<"s", "a", "l", "a", "d">>), "Salad")
            \o If(includes(name, <<"s", "o", "u", "p">>), "Soup")
            \o If(includes(name, <<"s", "a", "n", "d", "w", "i", "c", "h">>), "Sandwich")
            \o If(includes(name, <<"p", "a", "s", "t", "a">>), "Pasta")
            \o If(includes(name, <<"c", "u", "r", "r", "y">>), "Curry")
            \o If(includes(name, <<"s", "p", "i", "c", "y">>) \/ includes(ingredientText, <<"c", "h", "i", "l", "i">>)
                  \/ includes(ingredientText, <<"p", "e", "p", "p", "e", "r">>), "Spicy")
            \o If(includes(name, <<"s", "w", "e", "e", "t">>) \/ includes(ingredientText, <<"s", "u", "g", "a", "r">>)
                  \/ includes(ingredientText, <<"h", "o", "n", "e", "y">>), "Sweet")
            \o If(includes(name, <<"c", "r", "e", "a", "m", "y">>) \/ includes(ingredientText, <<"c", "r", "e", "a", "m">>)
                  \/ includes(ingredientText, <<"c", "h", "e", "e", "s", "e">>), "Creamy")
            \o (IF ~hasMeat /\ ~includes(ingredientText, <<"e", "g", "g">>)
                   /\ ~includes(ingredientText, <<"c", "h", "e", "e", "s", "e">>)
                THEN <<"Vegan">>
                ELSE IF ~hasMeat THEN <<"Vegetarian">> ELSE <<>>)
    IN  IF Len(tags) > 0 THEN Some(slice0(tags, 4)) ELSE None

fallbackMeal(name) ==
    IF includes(name, <<"b", "r", "e", "a", "k", "f", "a", "s", "t">>) \/ includes(name, <<"p", "a", "n", "c", "a", "k", "e">>)
       \/ includes(name, <<"o", "a", "t", "m", "e", "a", "l">>) \/ includes(name, <<"c", "e", "r", "e", "a", "l">>) THEN "Breakfast"
    ELSE IF includes(name, <<"d", "e", "s", "s", "e", "r", "t">>) \/ includes(name, <<"c", "a", "k", "e">>)
       \/ includes(name, <<"c", "o", "o", "k", "i", "e">>) \/ includes(name, <<"i", "c", "e", " ", "c", "r", "e", "a", "m">>) THEN "Dessert"
    ELSE IF includes(name, <<"s", "a", "l", "a", "d">>) \/ includes(name, <<"s", "i", "d", "e">>)
       \/ includes(name, <<"a", "p", "p", "e", "t", "i", "z", "e", "r">>) THEN "Side Dish"
    ELSE IF includes(name, <<"d", "r", "i", "n", "k">>) \/ includes(name, <<"s", "m", "o", "o", "t", "h", "i", "e">>)
       \/ includes(name, <<"j", "u", "i", "c", "e">>) THEN "Beverage"
    ELSE IF includes(name, <<"s", "n", "a", "c", "k">>) THEN "Snack"
    ELSE "Main Dish"

fallbackCuisine(name) ==
    IF includes(name, <<"i", "t", "a", "l", "i", "a", "n">>) \/ includes(name, <<"p", "a", "s", "t", "a">>)
       \/ includes(name, <<"p", "i", "z", "z", "a">>) \/ includes(name, <<"r", "i", "s", "o", "t", "t", "o">>) THEN Some("Italian")
    ELSE IF includes(name, <<"m", "e", "x", "i", "c", "a", "n">>) \/ includes(name, <<"t", "a", "c", "o">>)
       \/ includes(name, <<"b", "u", "r", "r", "i", "t", "o">>) \/ includes(name, <<"e", "n", "c", "h", "i", "l", "a", "d", "a">>) THEN Some("Mexican")
    ELSE IF includes(name, <<"c", "h", "i", "n", "e", "s", "e">>) \/ includes(name, <<"s", "t", "i", "r", " ", "f", "r", "y">>)
       \/ includes(name, <<"w", "o", "k">>) THEN Some("Chinese")
    ELSE IF includes(name, <<"i", "n", "d", "i", "a", "n">>) \/ includes(name, <<"c", "u", "r", "r", "y">>)
       \/ includes(name, <<"m", "a", "s", "a", "l", "a">>) THEN Some("Indian")
    ELSE IF includes(name, <<"f", "r", "e", "n", "c", "h">>) \/ includes(name, <<"c", "r", "e", "p", "e">>)
       \/ includes(name, <<"b", "a", "g", "u", "e", "t", "t", "e">>) THEN Some("French")
    ELSE IF includes(name, <<"j", "a", "p", "a", "n", "e", "s", "e">>) \/ includes(name, <<"s", "u", "s", "h", "i">>)
       \/ includes(name, <<"t", "e", "r", "i", "y", "a", "k", "i">>) THEN Some("Japanese")
    ELSE IF includes(name, <<"t", "h", "a", "i">>) \/ includes(name, <<"p", "a", "d", " ", "t", "h", "a", "i">>) THEN Some("Thai")
    ELSE IF includes(name, <<"m", "e", "d", "i", "t", "e", "r", "r", "a", "n", "e", "a", "n">>) \/ includes(name, <<"g", "r", "e", "e", "k">>)
       THEN Some("Mediterranean")
    ELSE None

(* the fallback's fixed confidence, 0.7, in percent *)
FALLBACK_CONFIDENCE == 70

createSmartFallbackAnalysis(recipe, extractedData) ==
    LET name == toLowerCase(recipe.name[1])
        ingredients == IF extractedData = None THEN <<>> ELSE extractedData[1].ingredients
    IN  [standardized_title |-> None,
         meal |-> IF ~TruthyStr(recipe.current_meal) THEN Some(fallbackMeal(name)) ELSE None,
         cuisine |-> IF ~TruthyStr(recipe.current_cuisine) THEN fallbackCuisine(name) ELSE None,
         tags |-> IF Len(recipe.current_tags) = 0
                  THEN inferTagsFromNameAndIngredients(name, ingredients) ELSE None,
         key_ingredients |-> IF Len(recipe.current_ingredients) = 0 /\ Len(ingredients) > 0
                             THEN extractKeyIngredientsFromList(ingredients) ELSE None,
         confidence |-> FALLBACK_CONFIDENCE,
         reasoning |-> "Smart rule-based analysis with ingredient extraction"]

---------------------------------------------------------------------------
(* Validation and reconciliation (variant 1) *)

validateAnalysis(analysis, recipe) ==
    LET meal0 == IF TruthyStr(recipe.current_meal) THEN None ELSE analysis.meal
        cuisine0 == IF TruthyStr(recipe.current_cuisine) THEN None ELSE analysis.cuisine
        tags0 == IF Len(recipe.current_tags) > 0 THEN None ELSE analysis.tags
        ing0 == IF Len(recipe.current_ingredients) > 0 THEN None ELSE analysis.key_ingredients
    IN  [analysis EXCEPT
            !.meal = IF TruthyStr(meal0) /\ meal0[1] \notin Range(MEAL_OPTIONS)
                     THEN Some("Main Dish") ELSE meal0,
            !.cuisine = IF TruthyStr(cuisine0) /\ cuisine0[1] \notin Range(CUISINE_OPTIONS)
                        THEN Some("American") ELSE cuisine0,
            !.tags = IF tags0 # None
                     THEN Some(filterIn(tags0[1], Range(TAG_OPTIONS))) ELSE tags0,
            !.key_ingredients = IF ing0 # None
                                THEN Some(filterIn(ing0[1], Range(INGREDIENT_OPTIONS)))
                                ELSE ing0]

---------------------------------------------------------------------------
(* Suggested Change Set *)

(* the entry of one field, or no entry *)
Entry(field, present, current, suggested) ==
    IF present THEN {<<field, [current |-> current, suggested |-> suggested]>>} ELSE {}

(* the object built from the entries: a function from the present field names *)
ChangeSet(entries) ==
    [f \in {e[1] : e \in entries} |-> (CHOOSE e \in entries : e[1] = f)[2]]

(* formatSuggestedChanges0 with the test of the recipe's current meal left out *)
formatSuggestedChanges0_NoMealGuard(recipe, analysis, extractedData) ==
    ChangeSet(
        Entry("meal", TruthyStr(analysis.meal), "Empty", analysis.meal)
        \cup Entry("cuisine", ~TruthyStr(recipe.current_cuisine) /\ TruthyStr(analysis.cuisine),
              "Empty", analysis.cuisine)
        \cup Entry("tags", Len(recipe.current_tags) = 0 /\ analysis.tags # None
                           /\ Len(analysis.tags[1]) > 0,
              recipe.current_tags, analysis.tags)
        \cup Entry("key_ingredients", Len(recipe.current_ingredients) = 0
                           /\ analysis.key_ingredients # None
                           /\ Len(analysis.key_ingredients[1]) > 0,
              recipe.current_ingredients, analysis.key_ingredients)
        \cup Entry("title", TruthyChars(analysis.standardized_title)
                           /\ analysis.standardized_title # recipe.name,
              recipe.name, analysis.standardized_title))

formatSuggestedChanges0(recipe, analysis, extractedData) ==
    ChangeSet(
        Entry("meal", ~TruthyStr(recipe.current_meal) /\ TruthyStr(analysis.meal),
              "Empty", analysis.meal)
        \cup Entry("cuisine", ~TruthyStr(recipe.current_cuisine) /\ TruthyStr(analysis.cuisine),
              "Empty", analysis.cuisine)
        \cup Entry("tags", Len(recipe.current_tags) = 0 /\ analysis.tags # None
                           /\ Len(analysis.tags[1]) > 0,
              recipe.current_tags, analysis.tags)
        \cup Entry("key_ingredients", Len(recipe.current_ingredients) = 0
                           /\ analysis.key_ingredients # None
                           /\ Len(analysis.key_ingredients[1]) > 0,
              recipe.current_ingredients, analysis.key_ingredients)
        \cup Entry("title", TruthyChars(analysis.standardized_title)
                           /\ analysis.standardized_title # recipe.name,
              recipe.name, analysis.standardized_title))

formatSuggestedChanges1(recipe, analysis, extractedData) ==
    ChangeSet(
        Entry("title", TruthyChars(analysis.standardized_title)
                           /\ analysis.standardized_title # recipe.name,
              recipe.name, analysis.standardized_title)
        \cup Entry("meal", TruthyStr(analysis.meal) /\ ~TruthyStr(recipe.current_meal),
              "Empty", analysis.meal)
        \cup Entry("cuisine", TruthyStr(analysis.cuisine) /\ ~TruthyStr(recipe.current_cuisine),
              "Empty", analysis.cuisine)
        \cup Entry("tags", analysis.tags # None /\ Len(recipe.current_tags) = 0,
              recipe.current_tags, analysis.tags)
        \cup Entry("key_ingredients", analysis.key_ingredients # None
                           /\ Len(recipe.current_ingredients) = 0,
              recipe.current_ingredients, analysis.key_ingredients)
        \cup Entry("image", extractedData # None /\ TruthyStr(extractedData[1].imageUrl),
              "No image", IF extractedData # None THEN extractedData[1].imageUrl ELSE None))

---------------------------------------------------------------------------
(* What analyzeRecipeWithAI returns for one outcome of the AI call.        *)
(* An outcome is [kind, data]: kind "object" is a 2xx response whose       *)
(* content parses to the object data; the other kinds are the failures.    *)

AiOutcomeKinds ==
    {"object", "unparseable", "nonobject", "empty", "non2xx", "reject", "timeout"}

(* variant 0: the parsed object as it is, the fallback on every failure *)
analysisOfOutcome0(recipe, extractedData, outcome) ==
    IF outcome.kind = "object" THEN Some(outcome.data)
    ELSE Some(createSmartFallbackAnalysis(recipe, extractedData))

(* variant 1: the validated object, null on every failure *)
analysisOfOutcome1(recipe, extractedData, outcome) ==
    IF outcome.kind = "object" THEN Some(validateAnalysis(outcome.data, recipe))
    ELSE None

---------------------------------------------------------------------------
(* The content of a model response, as a sequence of tokens: the code      *)
(* fence ```, the language tag json, a line break, and a JSON text with    *)
(* the value v it parses to.                                               *)

Fence == [t |-> "fence"]

JsonTag == [t |-> "tag"]

LineBreak == [t |-> "nl"]

JsonText(v) == [t |-> "json", v |-> v]

(* the token sequence without the tokens at positions from..to *)
without(c, from, to) == SubSeq(c, 1, from - 1) \o SubSeq(c, to + 1, Len(c))

(* .replace(/```json\n?/, '') *)
removeFenceWithTag(c) ==
    LET hits == {i \in 1..(Len(c) - 1) : c[i].t = "fence" /\ c[i + 1].t = "tag"}
        p == CHOOSE i \in hits : \A j \in hits : i <= j
    IN  IF hits = {} THEN c
        ELSE without(c, p, IF p + 2 <= Len(c) /\ c[p + 2].t = "nl" THEN p + 2 ELSE p + 1)

(* .replace(/```\n?/, '') *)
removeFence(c) ==
    LET hits == {i \in 1..Len(c) : c[i].t = "fence"}
        p == CHOOSE i \in hits : \A j \in hits : i <= j
    IN  IF hits = {} THEN c
        ELSE without(c, p, IF p + 1 <= Len(c) /\ c[p + 1].t = "nl" THEN p + 1 ELSE p)

(* variant 1: the clean-up of the content before JSON.parse *)
cleanUp1(c) ==
    IF \E i \in 1..Len(c) : c[i].t = "fence"
    THEN removeFence(removeFenceWithTag(c))
    ELSE c

(* JSON.parse: the value of the one JSON text, white space around it        *)
(* allowed; None when it throws                                             *)
JSONparse(c) ==
    LET body == SelectSeq(c, LAMBDA x : x.t # "nl")
    IN  IF Len(body) = 1 /\ body[1].t = "json" THEN Some(body[1].v) ELSE None

(* what the handling of a 2xx response with this content amounts to *)
outcomeOfContent0(c) ==
    IF SelectSeq(c, LAMBDA x : x.t # "nl") = <<>> THEN [kind |-> "empty", data |-> None]
    ELSE IF JSONparse(c) = None THEN [kind |-> "unparseable", data |-> None]
    ELSE [kind |-> "object", data |-> JSONparse(c)[1]]

outcomeOfContent1(c) ==
    IF JSONparse(cleanUp1(c)) = None THEN [kind |-> "unparseable", data |-> None]
    ELSE [kind |-> "object", data |-> JSONparse(cleanUp1(c))[1]]

(* the contents drawn for an object: fenced with the tag, fenced without *)
ContentForms == {"fenced-json", "fenced"}

Content(form, v) ==
    IF form = "fenced-json"
    THEN <<Fence, JsonTag, LineBreak, JsonText(v), LineBreak, Fence>>
    ELSE <<Fence, LineBreak, JsonText(v), LineBreak, Fence>>

---------------------------------------------------------------------------
(* The classifiers and the diff as functions of their inputs: one recipe,  *)
(* one extraction result and one AI response are drawn, a classifier is    *)
(* applied, then formatSuggestedChanges.                                   *)

UnitNames ==
    { <<"S", "p", "i", "c", "y", " ", "C", "h", "i", "c", "k", "e", "n", " ", "C", "u", "r", "r", "y">>,
      <<"P", "a", "n", "c", "a", "k", "e", "s">>,
      <<"G", "r", "e", "e", "k", " ", "S", "a", "l", "a", "d">> }

UnitRecipes ==
    [name : {Some(n) : n \in UnitNames},
     link : {""},
     current_meal : {None, Some("Dessert")},
     current_cuisine : {None, Some("Thai")},
     current_tags : {<<>>, <<"Spicy">>},
     current_ingredients : {<<>>, << <<"B", "e", "e", "f">> >>}]

UnitExtracted ==
    { None,
      Some([title |-> None,
            ingredients |-> << <<"2", " ", "l", "b", "s", " ", "G", "r", "o", "u", "n", "d", " ", "B", "e", "e", "f">>,
                               <<"1", " ", "t", "s", "p", " ", "c", "h", "i", "l", "i", " ", "p", "o", "w", "d", "e", "r">> >>,
            images |-> None, imageUrl |-> None]),
      Some([title |-> Some(<<"P", "a", "n", "c", "a", "k", "e", "s">>),
            ingredients |-> <<>>,
            images |-> Some(<<"https://img.example/1.jpg">>), imageUrl |-> None]) }

(* what a model response can hold, values outside the vocabularies included *)
UnitRaw ==
    [standardized_title : {None, Some(<<"P", "a", "n", "c", "a", "k", "e", "s">>)},
     meal : {None, Some(""), Some("Dessert"), Some("Lunch")},
     cuisine : {None, Some("Italian"), Some("Martian")},
     tags : {None, Some(<<>>), Some(<<"Spicy", "Yummy">>)},
     key_ingredients : {None, Some(<< <<"R", "i", "c", "e">> >>),
                        Some(<< <<"B", "e", "e", "f">>, <<"T", "o", "f", "u">> >>)},
     confidence : {85},
     reasoning : {"ai"}]

(* the objects drawn for the fenced contents *)
UnitContentRaw ==
    {raw \in UnitRaw : /\ raw.standardized_title = None /\ raw.tags = None
                       /\ raw.key_ingredients = None}

(* the pipeline is not running *)
PipeOff ==
    /\ variant = 0 /\ mode = "none" /\ now = 0 /\ ticks = 0 /\ hasKey = FALSE
    /\ breaker = [failures |-> 0, lastFailTime |-> None]
    /\ cache = [k \in {} |-> None]
    /\ store = <<>> /\ h_store = <<>> /\ phase = "off" /\ timer = None /\ post = None
    /\ requests = 0 /\ candidates = <<>> /\ tasks = <<>> /\ results = <<>>
    /\ response = None /\ h_streak = 0 /\ h_lastFail = None /\ h_calls = 0

UnitOff ==
    /\ u_variant = "none" /\ u_recipe = None /\ u_extracted = None /\ u_raw = None
    /\ u_stage = "off" /\ u_source = "none" /\ u_analysis = None /\ u_changes = None

(* no title is being standardized *)
TitleOff == t_title = None /\ t_once = None /\ t_twice = None /\ t_stage = "off"

(* withRetry is not running *)
RetryOff == retry = None

(* extractKeyIngredientsFromList is not being applied *)
KeysOff == keyrun = None

UnitInit ==
    /\ PipeOff
    /\ TitleOff
    /\ RetryOff
    /\ KeysOff
    /\ u_variant = "none"
    /\ u_recipe \in {Some(r) : r \in UnitRecipes}
    /\ u_extracted \in UnitExtracted
    /\ u_raw = None
    /\ u_stage = "input"
    /\ u_source = "none"
    /\ u_analysis = None
    /\ u_changes = None

UnitClassified(v, source, raw, analysis) ==
    /\ u_stage = "input"
    /\ u_stage' = "classified"
    /\ u_variant' = v
    /\ u_source' = source
    /\ u_raw' = raw
    /\ u_analysis' = analysis
    /\ UNCHANGED <<u_recipe, u_extracted, u_changes>>
    /\ UNCHANGED <<t_title, t_once, t_twice, t_stage, retry, keyrun>>
    /\ UNCHANGED pipeVars

(* variant 0, a live AI response that parses to the object raw *)
UnitLive0 ==
    \E raw \in UnitRaw :
        UnitClassified("v0", "ai", Some(raw),
            analysisOfOutcome0(u_recipe[1], u_extracted, [kind |-> "object", data |-> raw]))

(* variant 0, a cached analysis: the object a former call stored *)
UnitCached0 ==
    \E raw \in UnitRaw :
        UnitClassified("v0", "cache", Some(raw), Some(raw))

(* variant 0, the fallback: the breaker is open, there is no key, or the call failed *)
UnitFallback0 ==
    UnitClassified("v0", "fallback", None,
        Some(createSmartFallbackAnalysis(u_recipe[1], u_extracted)))

(* variant 1, a live AI response that parses to the object raw *)
UnitLive1 ==
    \E raw \in UnitRaw :
        UnitClassified("v1", "ai", Some(raw),
            analysisOfOutcome1(u_recipe[1], u_extracted, [kind |-> "object", data |-> raw]))

(* variant 0, a live AI response whose content is a fenced JSON object *)
UnitContent0 ==
    \E raw \in UnitContentRaw, form \in ContentForms :
        UnitClassified("v0", form, Some(raw),
            analysisOfOutcome0(u_recipe[1], u_extracted, outcomeOfContent0(Content(form, raw))))

(* variant 1, a live AI response whose content is a fenced JSON object *)
UnitContent1 ==
    \E raw \in UnitContentRaw, form \in ContentForms :
        UnitClassified("v1", form, Some(raw),
            analysisOfOutcome1(u_recipe[1], u_extracted, outcomeOfContent1(Content(form, raw))))

(* the diff, for a recipe that was classified (`if (analysis)`) *)
UnitDiff ==
    /\ u_stage = "classified"
    /\ u_analysis # None
    /\ u_stage' = "diffed"
    /\ u_changes' = Some(IF u_variant = "v0"
                         THEN formatSuggestedChanges0(u_recipe[1], u_analysis[1], u_extracted)
                         ELSE formatSuggestedChanges1(u_recipe[1], u_analysis[1], u_extracted))
    /\ UNCHANGED <<u_variant, u_recipe, u_extracted, u_raw, u_source, u_analysis>>
    /\ UNCHANGED <<t_title, t_once, t_twice, t_stage, retry, keyrun>>
    /\ UNCHANGED pipeVars

UnitNext ==
    \/ UnitLive0
    \/ UnitCached0
    \/ UnitFallback0
    \/ UnitLive1
    \/ UnitContent0
    \/ UnitContent1
    \/ UnitDiff

SpecUnit == UnitInit /\ [][UnitNext]_vars

---------------------------------------------------------------------------
(* Title standardization (variant 1).  The titles drawn hold no white      *)
(* space other than the space, so \s is the space.                         *)

toUpperCaseChar(c) ==
    IF \E i \in 1..Len(LowerChars) : LowerChars[i] = c
    THEN UpperChars[CHOOSE i \in 1..Len(LowerChars) : LowerChars[i] = c]
    ELSE c

(* String.prototype.trim *)
RECURSIVE trim(_)
trim(s) ==
    IF Len(s) = 0 THEN s
    ELSE IF s[1] = " " THEN trim(Tail(s))
    ELSE IF s[Len(s)] = " " THEN trim(SubSeq(s, 1, Len(s) - 1))
    ELSE s

(* the spaces that end at position p of s *)
RECURSIVE spacesBefore(_, _)
spacesBefore(s, p) ==
    IF p >= 1 /\ s[p] = " " THEN 1 + spacesBefore(s, p - 1) ELSE 0

(* .replace(/\s*SEP\s*.+$/, '') for the character sep: the leftmost match   *)
(* is at the first sep, if a character follows it                           *)
removeSiteName(s, sep) ==
    LET hits == {i \in 1..Len(s) : s[i] = sep}
        p == CHOOSE i \in hits : \A j \in hits : i <= j
    IN  IF hits = {} THEN s
        ELSE IF p = Len(s) THEN s
        ELSE SubSeq(s, 1, p - 1 - spacesBefore(s, p - 1))

(* .replace(/Recipe\s*$/i, '') *)
removeTrailingRecipe(s) ==
    LET word == <<"r", "e", "c", "i", "p", "e">>
        hits == {i \in 1..(Len(s) - 5) :
                    /\ toLowerCase(SubSeq(s, i, i + 5)) = word
                    /\ \A j \in (i + 6)..Len(s) : s[j] = " "}
    IN  IF hits = {} THEN s
        ELSE SubSeq(s, 1, (CHOOSE i \in hits : \A j \in hits : i <= j) - 1)

(* the spaces that begin at position p of s *)
RECURSIVE spacesFrom(_, _)
spacesFrom(s, p) ==
    IF p <= Len(s) /\ s[p] = " " THEN 1 + spacesFrom(s, p + 1) ELSE 0

(* .replace(/^\s*Recipe:\s*/i, '') *)
removeLeadingRecipe(s) ==
    LET word == <<"r", "e", "c", "i", "p", "e", ":">>
        a == spacesFrom(s, 1)
    IN  IF Len(s) >= a + 7 /\ toLowerCase(SubSeq(s, a + 1, a + 7)) = word
        THEN SubSeq(s, a + 8 + spacesFrom(s, a + 8), Len(s))
        ELSE s

(* String.prototype.split(' ') *)
RECURSIVE splitSpace(_)
splitSpace(s) ==
    LET hits == {i \in 1..Len(s) : s[i] = " "}
        p == CHOOSE i \in hits : \A j \in hits : i <= j
    IN  IF hits = {} THEN <<s>>
        ELSE <<SubSeq(s, 1, p - 1)>> \o splitSpace(SubSeq(s, p + 1, Len(s)))

lowercaseWords ==
    { <<"w", "i", "t", "h">>, <<"a", "n", "d">>, <<"o", "r">>, <<"i", "n">>, <<"o", "n">>,
      <<"a", "t">>, <<"t", "o">>, <<"f", "o", "r">>, <<"o", "f">>, <<"t", "h", "e">>,
      <<"a">>, <<"a", "n">> }

(* the callback of map: a function word in lower case, any other word capitalized *)
capitalizeWord(word) ==
    IF toLowerCase(word) \in lowercaseWords THEN toLowerCase(word)
    ELSE IF Len(word) = 0 THEN word
    ELSE <<toUpperCaseChar(word[1])>> \o toLowerCase(Tail(word))

(* .replace(/^./, c => c.toUpperCase()) *)
upperFirst(s) == IF Len(s) = 0 THEN s ELSE <<toUpperCaseChar(s[1])>> \o Tail(s)

standardizeTitle(title) ==
    LET stripped == trim(removeSiteName(removeLeadingRecipe(removeTrailingRecipe(
                        removeSiteName(title, "|"))), "-"))
        words == splitSpace(stripped)
    IN  upperFirst(joinSpace([i \in 1..Len(words) |-> capitalizeWord(words[i])]))

(* the words and separators the titles drawn are built from *)
TitleWords ==
    << <<"c", "h", "i", "c", "k", "e", "n">>, <<"S", "o", "u", "p">>,
       <<"R", "e", "c", "i", "p", "e">>, <<"w", "i", "t", "h">>, <<"T", "h", "e">>,
       <<"|">>, <<"-">> >>

(* the most words and separators a title drawn has *)
MaxTitleWords == 4

(* the titles drawn: the words joined by single spaces, as extractTitle     *)
(* passes them on: trimmed and longer than three characters                 *)
Titles ==
    LET picks == UNION {[1..n -> 1..Len(TitleWords)] : n \in 1..MaxTitleWords}
        all == {joinSpace([i \in DOMAIN p |-> TitleWords[p[i]]]) : p \in picks}
    IN  {t \in all : Len(t) > 3}

TitleInit ==
    /\ PipeOff
    /\ UnitOff
    /\ RetryOff
    /\ KeysOff
    /\ t_title \in {Some(t) : t \in Titles}
    /\ t_once = None /\ t_twice = None
    /\ t_stage = "input"

(* standardizeTitle is applied to the title *)
StandardizeOnce ==
    /\ t_stage = "input"
    /\ t_once' = Some(standardizeTitle(t_title[1]))
    /\ t_stage' = "once"
    /\ UNCHANGED <<t_title, t_twice>>
    /\ UNCHANGED <<u_variant, u_recipe, u_extracted, u_raw, u_stage, u_source, u_analysis,
                   u_changes, retry, keyrun>>
    /\ UNCHANGED pipeVars

(* standardizeTitle is applied to its own result *)
StandardizeAgain ==
    /\ t_stage = "once"
    /\ t_twice' = Some(standardizeTitle(t_once[1]))
    /\ t_stage' = "twice"
    /\ UNCHANGED <<t_title, t_once>>
    /\ UNCHANGED <<u_variant, u_recipe, u_extracted, u_raw, u_stage, u_source, u_analysis,
                   u_changes, retry, keyrun>>
    /\ UNCHANGED pipeVars

TitleNext ==
    \/ StandardizeOnce
    \/ StandardizeAgain

SpecTitle == TitleInit /\ [][TitleNext]_vars

---------------------------------------------------------------------------
(* Configuration *)

(* CONFIG.MAX_RECIPES_PER_BATCH of variant 0 and of variant 1 *)
MAX_RECIPES_PER_BATCH0 == 3

MAX_RECIPES_PER_BATCH1 == 5

AI_TIMEOUT_MS == 25000

SCRAPE_TIMEOUT_MS == 15000

MAX_RETRIES == 2

(* withRetry's first delay *)
RETRY_DELAY_MS == 1000

CACHE_TTL_MS == 86400000

(* the pause after each recipe in createReviewData of variant 1 *)
RATE_LIMIT_MS == 1000

(* the least length validateRecipeId accepts *)
MIN_ID_LENGTH == 10

(* circuitBreaker.threshold and circuitBreaker.resetTime *)
threshold == 3

resetTime == 300000

---------------------------------------------------------------------------
(* withRetry(fn, maxRetries = CONFIG.MAX_RETRIES, delay = 1000), run on a   *)
(* callback fn whose outcome and duration are drawn at every call.  retry   *)
(* is the activation: pc is "call" (awaiting fn()), "wait" (awaiting the    *)
(* setTimeout), "returned" or "threw"; calls and waits log the calls of fn  *)
(* and the pauses; extracted is what extractRecipeFromURL's catch makes of  *)
(* the error.                                                               *)

(* the largest maxRetries drawn *)
MaxRetriesDrawn == 3

(* how long a call of fn takes, in ms *)
FnDurations == {100, 2000, 9000}

(* delay *= 2 *)
nextDelay_Constant(delay) == delay

nextDelay(delay) == delay * 2

(* withRetry at its entry: attempt = 1 and fn is called *)
withRetryEntered(maxRetries) ==
    [pc |-> "call", maxRetries |-> maxRetries, attempt |-> 1, delay |-> RETRY_DELAY_MS,
     now |-> 0, wake |-> None, calls |-> <<>>, waits |-> <<>>, outcome |-> None,
     extracted |-> "pending"]

RetryInit ==
    /\ PipeOff
    /\ UnitOff
    /\ TitleOff
    /\ KeysOff
    /\ retry \in {Some(withRetryEntered(n)) : n \in MAX_RETRIES..MaxRetriesDrawn}

retryFrame == <<u_variant, u_recipe, u_extracted, u_raw, u_stage, u_source, u_analysis,
                u_changes, t_title, t_once, t_twice, t_stage, keyrun>>

(* `return await fn()` settles after d ms: fn resolved (ok) or threw.  A    *)
(* throw at attempt === maxRetries is rethrown, and the catch of            *)
(* extractRecipeFromURL returns null; an earlier one arms the setTimeout    *)
FnSettles(ok, d) ==
    /\ retry # None /\ retry[1].pc = "call"
    /\ LET r == retry[1]
           logged == [r EXCEPT !.now = r.now + d,
                        !.calls = Append(r.calls, [attempt |-> r.attempt, ok |-> ok,
                                                   from |-> r.now, to |-> r.now + d])]
       IN  retry' = Some(
             IF ok
             THEN [logged EXCEPT !.pc = "returned",
                      !.outcome = Some([kind |-> "result", attempt |-> r.attempt])]
             ELSE IF r.attempt = r.maxRetries
             THEN [logged EXCEPT !.pc = "threw",
                      !.outcome = Some([kind |-> "error", attempt |-> r.attempt]),
                      !.extracted = "null"]
             ELSE [logged EXCEPT !.pc = "wait", !.wake = Some(r.now + d + r.delay)])
    /\ UNCHANGED retryFrame
    /\ UNCHANGED pipeVars

(* the setTimeout fires: delay is doubled and the loop goes round *)
RetryTimerFires ==
    /\ retry # None /\ retry[1].pc = "wait"
    /\ LET r == retry[1]
       IN  retry' = Some([r EXCEPT !.pc = "call", !.now = r.wake[1], !.wake = None,
                             !.waits = Append(r.waits, r.delay),
                             !.delay = nextDelay(r.delay),
                             !.attempt = r.attempt + 1])
    /\ UNCHANGED retryFrame
    /\ UNCHANGED pipeVars

RetryNext ==
    \/ \E ok \in BOOLEAN, d \in FnDurations : FnSettles(ok, d)
    \/ RetryTimerFires

SpecRetry == RetryInit /\ [][RetryNext]_vars

---------------------------------------------------------------------------
(* extractKeyIngredientsFromList applied to drawn lists of ingredient      *)
(* lines.  keyrun is [list, stage, result].                                *)

(* the ingredient lines the lists are built from *)
IngredientLines ==
    << <<"2", " ", "l", "b", "s", " ", "c", "h", "i", "c", "k", "e", "n", " ", "w", "i", "t", "h", " ", "r", "i", "c", "e">>,
       <<"1", " ", "c", "u", "p", " ", "C", "r", "e", "a", "m", " ", "C", "h", "e", "e", "s", "e">>,
       <<"g", "a", "r", "l", "i", "c", " ", "a", "n", "d", " ", "o", "n", "i", "o", "n">>,
       <<"1", " ", "l", "e", "m", "o", "n">>,
       <<"1", " ", "t", "s", "p", " ", "s", "a", "l", "t">> >>

(* a line no pattern of the mapping occurs in *)
PlainLine == <<"1", " ", "t", "s", "p", " ", "s", "a", "l", "t">>

(* the most lines drawn for a list, the padding apart *)
MaxLines == 3

(* the list with lines that match nothing put before its last line, so      *)
(* that the last line is the eleventh                                       *)
Padded(list) ==
    SubSeq(list, 1, Len(list) - 1)
        \o [i \in 1..(11 - Len(list)) |-> PlainLine]
        \o <<list[Len(list)]>>

(* the lists drawn *)
IngredientLists ==
    LET picks == UNION {[1..n -> 1..Len(IngredientLines)] : n \in 1..MaxLines}
        plain == {[i \in DOMAIN p |-> IngredientLines[p[i]]] : p \in picks}
    IN  plain \cup {Padded(l) : l \in plain}

KeysInit ==
    /\ PipeOff
    /\ UnitOff
    /\ TitleOff
    /\ RetryOff
    /\ keyrun \in {Some([list |-> l, stage |-> "input", result |-> None]) :
                      l \in IngredientLists}

(* extractKeyIngredientsFromList(extractedData.ingredients) *)
ExtractKeys ==
    /\ keyrun # None /\ keyrun[1].stage = "input"
    /\ keyrun' = Some([keyrun[1] EXCEPT !.stage = "done",
                          !.result = extractKeyIngredientsFromList(keyrun[1].list)])
    /\ UNCHANGED <<u_variant, u_recipe, u_extracted, u_raw, u_stage, u_source, u_analysis,
                   u_changes, t_title, t_once, t_twice, t_stage, retry>>
    /\ UNCHANGED pipeVars

KeysNext == ExtractKeys

SpecKeys == KeysInit /\ [][KeysNext]_vars

---------------------------------------------------------------------------
(* Bounds of the runs *)

(* requests handled in one run of the process *)
MaxRequests == 2

(* requests handled in one run of the process of variant 1, which keeps     *)
(* nothing but the record store from one request to the next                *)
MaxRequests1 == 1

(* the requests one run of the process handles *)
RequestLimit == IF variant = 0 THEN MaxRequests ELSE MaxRequests1

(* idle periods in one run of the process *)
MaxTicks == 1

(* the refresh values drawn for the GET requests of variant 0, which logs   *)
(* the value and reads it nowhere else                                      *)
RefreshDrawn0 == {"notion", "ai"}

(* AI calls of variant 0 that are answered in one run of the process: a    *)
(* call beyond them stays pending                                          *)
MaxCalls == 4


(* the most callbacks one batch has *)
MaxTasks == MAX_RECIPES_PER_BATCH1

---------------------------------------------------------------------------
(* Variant 0: circuit breaker and cache *)

(* isOpen without the reset window *)
isOpen_NoReset(b, t) == b.failures >= threshold

(* circuitBreaker.isOpen() at time t; Date.now() - null is Date.now() *)
isOpen(b, t) ==
    IF b.failures >= threshold
    THEN (t - (IF b.lastFailTime = None THEN 0 ELSE b.lastFailTime[1])) < resetTime
    ELSE FALSE

(* recordSuccess leaving the breaker as it is *)
recordSuccess_KeepFailures(b) == b

recordSuccess(b) == [failures |-> 0, lastFailTime |-> None]

(* recordFailure starting the count afresh once the window has elapsed *)
recordFailure_AfterWindow(b, t) ==
    IF b.failures >= threshold /\ t - b.lastFailTime[1] >= resetTime
    THEN [failures |-> 1, lastFailTime |-> Some(t)]
    ELSE [failures |-> b.failures + 1, lastFailTime |-> Some(t)]

recordFailure(b, t) == [failures |-> b.failures + 1, lastFailTime |-> Some(t)]

(* the keys `ai:${recipe.name}:${recipe.link}` and `scrape:${url}` *)
aiCacheKey(recipe) == [op |-> "ai", name |-> recipe.name, link |-> recipe.link]

scrapeCacheKey(url) == [op |-> "scrape", name |-> None, link |-> url]

(* cacheFresh without the test of the entry's age *)
cacheFresh_NoTTL(c, key, t) == key \in DOMAIN c

(* cached && Date.now() - cached.timestamp < CONFIG.CACHE_TTL_MS *)
cacheFresh(c, key, t) == key \in DOMAIN c /\ t - c[key].timestamp < CACHE_TTL_MS

(* cache.set(key, {data, timestamp: Date.now()}) *)
cacheSet(c, key, data, t) ==
    [k \in DOMAIN c \cup {key} |->
        IF k = key THEN [data |-> data, timestamp |-> t] ELSE c[k]]

---------------------------------------------------------------------------
(* The record store *)

Page(name, link, meal, cuisine, tags, ingredients) ==
    [name |-> name, link |-> link, meal |-> meal, cuisine |-> cuisine, tags |-> tags,
     ingredients |-> ingredients, cover |-> None]

PagePancakes == Page(<<"P", "a", "n", "c", "a", "k", "e", "s">>, "", None, None, <<>>, <<>>)

PageSalad == Page(<<"G", "r", "e", "e", "k", " ", "S", "a", "l", "a", "d">>, "", Some("Side Dish"), None, <<>>, <<>>)

PageCurry == Page(<<"S", "p", "i", "c", "y", " ", "C", "h", "i", "c", "k", "e", "n", " ", "C", "u", "r", "r", "y">>, "https://recipes.example/curry", None, None, <<>>, <<>>)

PageStew == Page(<<"B", "e", "e", "f", " ", "S", "t", "e", "w">>, "", None, Some("American"), <<>>, <<>>)

PageToast == Page(<<"F", "r", "e", "n", "c", "h", " ", "T", "o", "a", "s", "t">>, "", None, None, <<"Sweet">>, <<>>)

PageSoup == Page(<<"T", "o", "m", "a", "t", "o", " ", "S", "o", "u", "p">>, "", None, None, <<>>, << <<"T", "o", "m", "a", "t", "o">> >>)

PageDone == Page(<<"L", "e", "m", "o", "n", " ", "C", "a", "k", "e">>, "", Some("Dessert"), Some("American"), <<"Sweet">>, << <<"L", "e", "m", "o", "n">> >>)

(* the databases the runs start from: six incomplete pages and a complete  *)
(* one; one incomplete page with a source link and a complete one; two     *)
(* incomplete pages; a complete page only                                  *)
InitialStores ==
    { <<PagePancakes, PageSalad, PageDone, PageStew, PageCurry, PageToast, PageSoup>>,
      <<PageCurry, PageDone>>,
      <<PagePancakes, PageStew>>,
      <<PageDone>> }

(* the filter of the database query: one of the four properties is empty *)
isIncomplete(page) ==
    \/ ~TruthyStr(page.meal)
    \/ ~TruthyStr(page.cuisine)
    \/ Len(page.ingredients) = 0
    \/ Len(page.tags) = 0

(* response.results.map(page => ({...})) *)
pageToRecipe(id, page) ==
    [id |-> id, name |-> Some(page.name), link |-> page.link,
     current_meal |-> page.meal, current_cuisine |-> page.cuisine,
     current_tags |-> page.tags, current_ingredients |-> page.ingredients]

(* what getIncompleteRecipes returns when the query succeeds *)
getIncompleteRecipes(s) ==
    LET ids == SelectSeq([i \in 1..Len(s) |-> i], LAMBDA i : isIncomplete(s[i]))
    IN  [k \in 1..Len(ids) |-> pageToRecipe(ids[k], s[ids[k]])]

(* the properties object of an updateRecipe request *)
hasProperties(updates) ==
    \/ TruthyChars(updates.title)
    \/ TruthyStr(updates.meal)
    \/ TruthyStr(updates.cuisine)
    \/ updates.tags # None
    \/ updates.keyIngredients # None

(* notion.pages.update({page_id, cover}) *)
coverUpdated(s, id, updates) == [s EXCEPT ![id].cover = updates.selectedImage]

(* notion.pages.update({page_id, properties}) *)
propertiesUpdated(s, id, updates) ==
    [s EXCEPT ![id] =
        [@ EXCEPT !.name = IF TruthyChars(updates.title) THEN updates.title[1] ELSE @,
                  !.meal = IF TruthyStr(updates.meal) THEN updates.meal ELSE @,
                  !.cuisine = IF TruthyStr(updates.cuisine) THEN updates.cuisine ELSE @,
                  !.tags = IF updates.tags # None THEN updates.tags[1] ELSE @,
                  !.ingredients = IF updates.keyIngredients # None
                                  THEN updates.keyIngredients[1] ELSE @]]

---------------------------------------------------------------------------
(* The callback of one recipe (a task).  pc is where it is suspended:      *)
(*   variant 0  "fetch1" "backoff" "fetch2"  in extractRecipeFromURL       *)
(*              "awaitAI" "awaitBody"        in analyzeRecipeWithAI        *)
(*   variant 1  "content"                    in loadPageContent            *)
(*              "fetch" "body"               in extractRecipeFromURL       *)
(*              "awaitAI" "awaitBody"        in analyzeRecipeWithAI        *)
(*              "sleep"                      in the pause after the recipe *)
(*   both       "done"   returned; "threw"  an exception left the loop body*)
(* scraped: "no" extractRecipeFromURL was not called (or has not returned),*)
(* "null" it returned null, "data" it returned page data.  deadline is the *)
(* time withTimeout's timer of the awaited call fires, None without timer; *)
(* wake is the time a setTimeout pause ends.  h_start, h_fresh and h_age   *)
(* are history: the failure streak, the cache and the age of the recipe's  *)
(* cache entry when analyzeRecipeWithAI was entered; h_outcome is how the  *)
(* AI call of variant 0 ended: "success", "failure" (recorded by the       *)
(* breaker) or "soft" (content that is no JSON).                           *)

newTask(recipe) ==
    [recipe |-> recipe, pc |-> "new", scraped |-> "no", extracted |-> None,
     analysis |-> None, deadline |-> None, wake |-> None, dispatched |-> FALSE,
     fetches |-> 0, h_start |-> "none", h_fresh |-> FALSE, h_age |-> None,
     h_outcome |-> "none"]

(* history: the failure streak at time t, in the words of the breaker's contract *)
StreakState(t) ==
    IF h_streak >= threshold /\ h_lastFail # None
    THEN (IF t - h_lastFail[1] < resetTime THEN "open" ELSE "elapsed")
    ELSE "closed"

(* the result item pushed for a task; extractedData None is the            *)
(* placeholder {source: 'notion-only'}                                     *)
reviewItem(task, extractedData, changes) ==
    [id |-> task.recipe.id, extractedData |-> extractedData,
     analysis |-> task.analysis[1], suggestedChanges |-> changes]

(* the page data a successful extraction returns *)
PageData ==
    [title |-> Some(<<"B", "e", "s", "t", " ", "C", "u", "r", "r", "y">>),
     ingredients |-> << <<"2", " ", "l", "b", "s", " ", "c", "h", "i", "c", "k", "e", "n">>, <<"1", " ", "t", "s", "p", " ", "c", "h", "i", "l", "i", " ", "p", "o", "w", "d", "e", "r">> >>,
     images |-> Some(<<"https://img.example/1.jpg">>), imageUrl |-> None]

(* the objects a model response parses to: a meal outside the vocabulary *)
AiObjects ==
    { [standardized_title |-> None, meal |-> Some("Lunch"), cuisine |-> Some("American"),
       tags |-> Some(<<"Sweet">>), key_ingredients |-> Some(<< <<"M", "i", "l", "k">> >>),
       confidence |-> 90, reasoning |-> "ai"] }

---------------------------------------------------------------------------
(* Variant 0: analyzeRecipeWithAI and extractRecipeFromURL *)

(* analyzeStart without the test of the breaker *)
analyzeStart_BreakerIgnored(task) ==
    LET entered == [task EXCEPT !.h_start = StreakState(now),
                                !.h_fresh = cacheFresh(cache, aiCacheKey(task.recipe), now),
                                !.h_age = IF aiCacheKey(task.recipe) \in DOMAIN cache
                                          THEN Some(now - cache[aiCacheKey(task.recipe)].timestamp)
                                          ELSE None,
                                !.deadline = None, !.wake = None]
    IN  IF ~hasKey
        THEN [entered EXCEPT !.pc = "done",
                 !.analysis = Some(createSmartFallbackAnalysis(task.recipe, task.extracted))]
        ELSE IF cacheFresh(cache, aiCacheKey(task.recipe), now)
        THEN [entered EXCEPT !.pc = "done",
                 !.analysis = Some(cache[aiCacheKey(task.recipe)].data)]
        ELSE [entered EXCEPT !.pc = "awaitAI", !.dispatched = TRUE,
                 !.deadline = Some(now + AI_TIMEOUT_MS)]

(* analyzeRecipeWithAI from its entry to its first await, or to its return *)
analyzeStart(task) ==
    LET entered == [task EXCEPT !.h_start = StreakState(now),
                                !.h_fresh = cacheFresh(cache, aiCacheKey(task.recipe), now),
                                !.h_age = IF aiCacheKey(task.recipe) \in DOMAIN cache
                                          THEN Some(now - cache[aiCacheKey(task.recipe)].timestamp)
                                          ELSE None,
                                !.deadline = None, !.wake = None]
    IN  IF ~hasKey \/ isOpen(breaker, now)
        THEN [entered EXCEPT !.pc = "done",
                 !.analysis = Some(createSmartFallbackAnalysis(task.recipe, task.extracted))]
        ELSE IF cacheFresh(cache, aiCacheKey(task.recipe), now)
        THEN [entered EXCEPT !.pc = "done",
                 !.analysis = Some(cache[aiCacheKey(task.recipe)].data)]
        ELSE [entered EXCEPT !.pc = "awaitAI", !.dispatched = TRUE,
                 !.deadline = Some(now + AI_TIMEOUT_MS)]

(* the callback withRetry runs: after `res = await fetch(url)` it tests     *)
(* `response.ok`, and `response` is the constant the enclosing statement    *)
(* is still initialising: a ReferenceError, whatever fetch resolved with    *)
scrapeAttempt(kind) == IF kind = "reject" THEN "throws" ELSE "throws"

(* extractRecipeFromURL returned null: the callback goes on to classify *)
extractedNull(task) ==
    analyzeStart([task EXCEPT !.scraped = "null", !.extracted = None])

(* the callback of processedRecipes.map from its entry to its first await *)
startTask0(recipe) ==
    IF recipe.link = ""
    THEN analyzeStart(newTask(recipe))
    ELSE IF cacheFresh(cache, scrapeCacheKey(recipe.link), now)
    THEN analyzeStart([newTask(recipe) EXCEPT !.scraped = "data",
                          !.extracted = Some(cache[scrapeCacheKey(recipe.link)].data)])
    ELSE [newTask(recipe) EXCEPT !.pc = "fetch1", !.fetches = 1,
             !.deadline = Some(now + SCRAPE_TIMEOUT_MS)]

(* processedRecipes0 without the slice *)
processedRecipes0_All(recipes) == recipes

(* recipes.slice(0, CONFIG.MAX_RECIPES_PER_BATCH) *)
processedRecipes0(recipes) == slice0(recipes, MAX_RECIPES_PER_BATCH0)

(* the outcomes the catch block of analyzeRecipeWithAI records as a failure *)
FailureKinds == {"timeout", "reject", "non2xx", "badbody", "empty", "nonobject"}

(* analyzeRecipeWithAI from the settling of the call to its return *)
analyzeSettled(task, outcome) ==
    [task EXCEPT !.pc = "done", !.deadline = None,
                 !.analysis = analysisOfOutcome0(task.recipe, task.extracted, outcome),
                 !.h_outcome = IF outcome.kind = "object" THEN "success"
                               ELSE IF outcome.kind \in FailureKinds THEN "failure"
                               ELSE "soft"]

breakerSettled(b, outcome, t) ==
    IF outcome.kind = "object" THEN recordSuccess(b)
    ELSE IF outcome.kind \in FailureKinds THEN recordFailure(b, t)
    ELSE b

(* cacheSettled writing whatever analyzeRecipeWithAI returns *)
cacheSettled_EveryResult(c, task, outcome, t) ==
    cacheSet(c, aiCacheKey(task.recipe),
             analysisOfOutcome0(task.recipe, task.extracted, outcome)[1], t)

cacheSettled(c, task, outcome, t) ==
    IF outcome.kind = "object" THEN cacheSet(c, aiCacheKey(task.recipe), outcome.data, t)
    ELSE c

handlerVars == <<variant, mode, hasKey, store, h_store, phase, timer, post, requests,
                 candidates, results, response>>

(* one outcome of the AI call of task i is handled *)
Settle0(i, outcome) ==
    /\ h_calls < MaxCalls
    /\ h_calls' = h_calls + 1
    /\ tasks' = [tasks EXCEPT ![i] = analyzeSettled(tasks[i], outcome)]
    /\ breaker' = breakerSettled(breaker, outcome, now)
    /\ cache' = cacheSettled(cache, tasks[i], outcome, now)
    /\ h_streak' = (IF outcome.kind = "object" THEN 0
                    ELSE IF outcome.kind \in FailureKinds THEN h_streak + 1
                    ELSE h_streak)
    /\ h_lastFail' = (IF outcome.kind = "object" THEN None
                      ELSE IF outcome.kind \in FailureKinds THEN Some(now)
                      ELSE h_lastFail)
    /\ UNCHANGED <<now, ticks, handlerVars>>
    /\ UNCHANGED unitVars

Awaiting0(i, pcs) ==
    /\ variant = 0 /\ phase = "running"
    /\ i \in 1..Len(tasks)
    /\ tasks[i].pc \in pcs

(* fetch() rejects, or resolves with a status that is not 2xx *)
AiCallFails0(i, kind) ==
    /\ Awaiting0(i, {"awaitAI"})
    /\ kind \in {"reject", "non2xx"}
    /\ Settle0(i, [kind |-> kind, data |-> None])

(* withTimeout's timer fires first: the call took AI_TIMEOUT_MS *)
AiCallTimesOut0(i) ==
    /\ Awaiting0(i, {"awaitAI"})
    /\ now = tasks[i].deadline[1]
    /\ Settle0(i, [kind |-> "timeout", data |-> None])

(* fetch() resolves with a 2xx response: the callback awaits response.json() *)
AiCallResponds0(i) ==
    /\ Awaiting0(i, {"awaitAI"})
    /\ h_calls < MaxCalls
    /\ tasks' = [tasks EXCEPT ![i].pc = "awaitBody", ![i].deadline = None]
    /\ UNCHANGED <<now, ticks, breaker, cache, h_streak, h_lastFail, h_calls, handlerVars>>
    /\ UNCHANGED unitVars

(* response.json() settles: it rejects ("badbody"), or the content is       *)
(* empty, no JSON ("unparseable"), JSON but no object, or an object         *)
AiBodyArrives0(i, kind, data) ==
    /\ Awaiting0(i, {"awaitBody"})
    /\ kind \in {"badbody", "empty", "unparseable", "nonobject", "object"}
    /\ Settle0(i, [kind |-> kind, data |-> data])

(* an attempt of the page fetch ends: fetch() rejects or resolves *)
ScrapeAttemptEnds0(i, kind) ==
    /\ Awaiting0(i, {"fetch1", "fetch2"})
    /\ kind \in {"reject", "resolve"}
    /\ scrapeAttempt(kind) = "throws"
    /\ tasks' = [tasks EXCEPT ![i] =
            IF tasks[i].fetches < MAX_RETRIES
            THEN [tasks[i] EXCEPT !.pc = "backoff", !.wake = Some(now + RETRY_DELAY_MS)]
            ELSE extractedNull(tasks[i])]
    /\ UNCHANGED <<now, ticks, breaker, cache, h_streak, h_lastFail, h_calls, handlerVars>>
    /\ UNCHANGED unitVars

(* withRetry's pause ends: the next attempt *)
BackoffEnds0(i) ==
    /\ Awaiting0(i, {"backoff"})
    /\ now = tasks[i].wake[1]
    /\ tasks' = [tasks EXCEPT ![i].pc = "fetch2", ![i].wake = None,
                              ![i].fetches = tasks[i].fetches + 1]
    /\ UNCHANGED <<now, ticks, breaker, cache, h_streak, h_lastFail, h_calls, handlerVars>>
    /\ UNCHANGED unitVars

(* withTimeout's timer fires first: 'Web scraping timeout' is caught *)
ScrapeTimesOut0(i) ==
    /\ Awaiting0(i, {"fetch1", "backoff", "fetch2"})
    /\ now = tasks[i].deadline[1]
    /\ tasks' = [tasks EXCEPT ![i] = extractedNull(tasks[i])]
    /\ UNCHANGED <<now, ticks, breaker, cache, h_streak, h_lastFail, h_calls, handlerVars>>
    /\ UNCHANGED unitVars

---------------------------------------------------------------------------
(* Variant 0: the handler.  phase is where it is suspended: "idle" (no     *)
(* request), "query" (the database query), "running" (Promise.all of the   *)
(* callbacks), "cover" and "props" (the two page updates of updateRecipe). *)

Respond(status) == [status |-> status]

(* what run() returns when it reaches its last statement *)
Summary(processed, total) == [success |-> TRUE, processed |-> processed, total |-> total]

(* res.status(200).json(result), result being what run() returned (None:    *)
(* undefined)                                                               *)
RunResponse(result) == [status |-> 200, body |-> result]

(* a GET with ?refresh=m arrives: refreshType is logged, then                *)
(* getIncompleteRecipes queries the database under withTimeout              *)
GetRequest0(m) ==
    /\ variant = 0 /\ phase = "idle" /\ requests < MaxRequests
    /\ m \in {"notion", "website", "ai"}
    /\ requests' = requests + 1
    /\ mode' = m
    /\ phase' = "query"
    /\ timer' = Some(now + SCRAPE_TIMEOUT_MS)
    /\ h_store' = store
    /\ candidates' = <<>> /\ tasks' = <<>> /\ results' = <<>> /\ response' = None
    /\ post' = None
    /\ UNCHANGED <<variant, now, ticks, hasKey, breaker, cache, store, h_streak, h_lastFail, h_calls>>
    /\ UNCHANGED unitVars

(* the query returns: no recipe, or createReviewData up to Promise.all *)
QueryReturns0 ==
    /\ variant = 0 /\ phase = "query"
    /\ candidates' = getIncompleteRecipes(store)
    /\ timer' = None
    /\ IF Len(getIncompleteRecipes(store)) = 0
       THEN /\ phase' = "idle" /\ response' = Some(Respond(200))
            /\ UNCHANGED tasks
       ELSE /\ phase' = "running" /\ UNCHANGED response
            /\ tasks' = [i \in 1..Len(processedRecipes0(getIncompleteRecipes(store))) |->
                            startTask0(processedRecipes0(getIncompleteRecipes(store))[i])]
    /\ UNCHANGED <<variant, mode, now, ticks, hasKey, breaker, cache, store, h_store, post,
                   requests, results, h_streak, h_lastFail, h_calls>>
    /\ UNCHANGED unitVars

(* the query rejects or its timer fires: getIncompleteRecipes throws *)
QueryFails0(kind) ==
    /\ variant = 0 /\ phase = "query"
    /\ kind \in {"reject", "timeout"}
    /\ (kind = "timeout") => now = timer[1]
    /\ phase' = "idle" /\ timer' = None /\ response' = Some(Respond(500))
    /\ UNCHANGED <<variant, mode, now, ticks, hasKey, breaker, cache, store, h_store, post,
                   requests, candidates, tasks, results, h_streak, h_lastFail, h_calls>>
    /\ UNCHANGED unitVars

(* the item of a callback that returned, in variant 0 *)
itemOf0(task) ==
    reviewItem(task, task.extracted,
        formatSuggestedChanges0(task.recipe, task.analysis[1], task.extracted))

(* joined0 listing the items from the last callback to the first *)
joined0_Reversed(ts) ==
    LET kept == SelectSeq([i \in 1..Len(ts) |-> i],
                          LAMBDA i : ts[i].pc = "done" /\ ts[i].analysis # None)
    IN  [k \in 1..Len(kept) |-> itemOf0(ts[kept[Len(kept) + 1 - k]])]

(* results.filter(item => item !== null) *)
joined0(ts) ==
    LET kept == SelectSeq([i \in 1..Len(ts) |-> i],
                          LAMBDA i : ts[i].pc = "done" /\ ts[i].analysis # None)
    IN  [k \in 1..Len(kept) |-> itemOf0(ts[kept[k]])]

(* JoinBatch0 writing the suggestions to the store *)
JoinBatch0_Applying ==
    /\ variant = 0 /\ phase = "running"
    /\ \A i \in 1..Len(tasks) : tasks[i].pc \in {"done", "threw"}
    /\ results' = joined0(tasks)
    /\ store' = [id \in 1..Len(store) |->
                    IF \E k \in 1..Len(joined0(tasks)) :
                          /\ joined0(tasks)[k].id = id
                          /\ "meal" \in DOMAIN joined0(tasks)[k].suggestedChanges
                    THEN [store[id] EXCEPT !.meal = Some("Main Dish")]
                    ELSE store[id]]
    /\ phase' = "idle"
    /\ response' = Some(Respond(200))
    /\ UNCHANGED <<variant, mode, now, ticks, hasKey, breaker, cache, h_store, timer, post,
                   requests, candidates, tasks, h_streak, h_lastFail, h_calls>>
    /\ UNCHANGED unitVars

(* Promise.all resolves: createReviewData returns, the handler responds *)
JoinBatch0 ==
    /\ variant = 0 /\ phase = "running"
    /\ \A i \in 1..Len(tasks) : tasks[i].pc \in {"done", "threw"}
    /\ results' = joined0(tasks)
    /\ phase' = "idle"
    /\ response' = Some(Respond(200))
    /\ UNCHANGED <<variant, mode, now, ticks, hasKey, breaker, cache, store, h_store, timer,
                   post, requests, candidates, tasks, h_streak, h_lastFail, h_calls>>
    /\ UNCHANGED unitVars

---------------------------------------------------------------------------
(* POST updateRecipe, in both variants.  Variant 1 (part_001, 1011-1085)   *)
(* is the same code without withTimeout around the properties update.      *)

NoUpdates ==
    [title |-> None, meal |-> None, cuisine |-> None, tags |-> None,
     keyIngredients |-> None, selectedImage |-> None]

allowedFields == {"title", "meal", "cuisine", "tags", "keyIngredients", "selectedImage"}

(* an updates object with a field that is not in the allow-list *)
WithRating(updates) ==
    [f \in DOMAIN updates \cup {"rating"} |-> IF f = "rating" THEN Some("5") ELSE updates[f]]

(* the update requests drawn; None is a field the body does not hold *)
UpdateRequests ==
    { [NoUpdates EXCEPT !.meal = Some("Dessert")],
      [NoUpdates EXCEPT !.selectedImage = Some("https://img.example/1.jpg")],
      [NoUpdates EXCEPT !.meal = Some("Dessert"),
                        !.selectedImage = Some("https://img.example/1.jpg")],
      WithRating(NoUpdates),
      WithRating([NoUpdates EXCEPT !.meal = Some("Dessert")]) }

(* sanitizeInput: a string is trimmed, an array cut to 50 entries; the      *)
(* strings drawn are shorter than the length limits, and those held as one  *)
(* value carry no white space at their ends                                 *)
sanitizeInput(field, value) ==
    IF value = None THEN None
    ELSE IF field = "title" THEN Some(trim(value[1]))
    ELSE IF field \in {"tags", "keyIngredients"} THEN Some(slice0(value[1], 50))
    ELSE value

validateUpdateData(updates) ==
    [f \in allowedFields |->
        IF f \in DOMAIN updates THEN sanitizeInput(f, updates[f]) ELSE None]

(* the recipe ids of the requests drawn: the id of page 1, a string of five *)
(* characters, and a number                                                 *)
RecipeIds ==
    { [type |-> "string", length |-> 36, page |-> 1],
      [type |-> "string", length |-> 5, page |-> 0],
      [type |-> "number", length |-> 0, page |-> 0] }

(* validateRecipeId throws 'Invalid recipe ID' *)
validateRecipeIdThrows(recipeId) ==
    recipeId.type # "string" \/ recipeId.length < MIN_ID_LENGTH

propsTimer == IF variant = 0 THEN Some(now + SCRAPE_TIMEOUT_MS) ELSE None

(* a POST updateRecipe arrives: up to the first awaited page update, or to  *)
(* the response.  An invalid id is thrown out of the inner try: the outer   *)
(* catch answers 500.                                                       *)
PostRequest(recipeId, updates) ==
    /\ phase = "idle" /\ requests < RequestLimit
    /\ recipeId.page \in 0..Len(store)
    /\ requests' = requests + 1
    /\ mode' = "post"
    /\ post' = Some([id |-> recipeId.page, recipeId |-> recipeId, raw |-> updates,
                     updates |-> validateUpdateData(updates)])
    /\ h_store' = store
    /\ candidates' = <<>> /\ tasks' = <<>> /\ results' = <<>>
    /\ IF validateRecipeIdThrows(recipeId)
       THEN phase' = "idle" /\ timer' = None /\ response' = Some(Respond(500))
       ELSE IF TruthyStr(validateUpdateData(updates).selectedImage)
       THEN phase' = "cover" /\ timer' = None /\ response' = None
       ELSE IF hasProperties(validateUpdateData(updates))
       THEN phase' = "props" /\ timer' = propsTimer /\ response' = None
       ELSE phase' = "idle" /\ timer' = None /\ response' = Some(Respond(200))
    /\ UNCHANGED <<variant, now, ticks, hasKey, breaker, cache, store, h_streak, h_lastFail, h_calls>>
    /\ UNCHANGED unitVars

(* variant 0: a POST without action 'updateRecipe', or without recipeId or  *)
(* updates, is answered 400 'Invalid request format'                        *)
PostOther0 ==
    /\ variant = 0 /\ phase = "idle" /\ requests < RequestLimit
    /\ requests' = requests + 1
    /\ mode' = "run"
    /\ post' = None
    /\ h_store' = store
    /\ candidates' = <<>> /\ tasks' = <<>> /\ results' = <<>>
    /\ timer' = None
    /\ response' = Some(Respond(400))
    /\ UNCHANGED <<variant, now, ticks, hasKey, breaker, cache, store, phase, h_streak,
                   h_lastFail, h_calls>>
    /\ UNCHANGED unitVars

(* the cover update returns: the properties update follows, or the response *)
CoverUpdateReturns ==
    /\ phase = "cover"
    /\ store' = coverUpdated(store, post[1].id, post[1].updates)
    /\ IF hasProperties(post[1].updates)
       THEN phase' = "props" /\ timer' = propsTimer /\ UNCHANGED response
       ELSE phase' = "idle" /\ timer' = None /\ response' = Some(Respond(200))
    /\ UNCHANGED <<variant, mode, now, ticks, hasKey, breaker, cache, h_store, post, requests,
                   candidates, tasks, results, h_streak, h_lastFail, h_calls>>
    /\ UNCHANGED unitVars

(* the properties update returns *)
PropsUpdateReturns ==
    /\ phase = "props"
    /\ store' = propertiesUpdated(store, post[1].id, post[1].updates)
    /\ phase' = "idle" /\ timer' = None /\ response' = Some(Respond(200))
    /\ UNCHANGED <<variant, mode, now, ticks, hasKey, breaker, cache, h_store, post, requests,
                   candidates, tasks, results, h_streak, h_lastFail, h_calls>>
    /\ UNCHANGED unitVars

(* a page update rejects: the inner catch answers 500 *)
UpdateFails ==
    /\ phase \in {"cover", "props"}
    /\ phase' = "idle" /\ timer' = None /\ response' = Some(Respond(500))
    /\ UNCHANGED <<variant, mode, now, ticks, hasKey, breaker, cache, store, h_store, post,
                   requests, candidates, tasks, results, h_streak, h_lastFail, h_calls>>
    /\ UNCHANGED unitVars

(* variant 0: the timer of the properties update fires *)
PropsUpdateTimesOut0 ==
    /\ variant = 0 /\ phase = "props"
    /\ now = timer[1]
    /\ phase' = "idle" /\ timer' = None /\ response' = Some(Respond(500))
    /\ UNCHANGED <<variant, mode, now, ticks, hasKey, breaker, cache, store, h_store, post,
                   requests, candidates, tasks, results, h_streak, h_lastFail, h_calls>>
    /\ UNCHANGED unitVars

---------------------------------------------------------------------------
(* Time *)

(* the times at which a pending timer fires *)
PendingTimers ==
    (IF phase \in {"query", "props"} /\ timer # None THEN {timer[1]} ELSE {})
    \cup {tasks[i].deadline[1] : i \in {j \in 1..Len(tasks) :
              phase = "running" /\ tasks[j].deadline # None}}
    \cup {tasks[i].wake[1] : i \in {j \in 1..Len(tasks) :
              phase = "running" /\ tasks[j].wake # None}}

(* the oldest entries of the AI cache *)
OldestEntries ==
    {k \in DOMAIN cache : \A j \in DOMAIN cache : cache[k].timestamp <= cache[j].timestamp}

(* the ends of the idle periods drawn: the last ms of the breaker's reset   *)
(* window and the ms after it; the last ms the oldest cache entry is fresh  *)
(* and the ms after it                                                      *)
IdleTargets ==
    (IF breaker.lastFailTime = None THEN {}
     ELSE {breaker.lastFailTime[1] + resetTime - 1, breaker.lastFailTime[1] + resetTime})
    \cup UNION {{cache[k].timestamp + CACHE_TTL_MS - 1, cache[k].timestamp + CACHE_TTL_MS} :
                   k \in OldestEntries}

(* time passes until the next timer is due; no timer is passed over *)
AdvanceToTimer ==
    /\ PendingTimers # {}
    /\ \A t \in PendingTimers : t > now
    /\ now' = CHOOSE t \in PendingTimers : \A u \in PendingTimers : t <= u
    /\ UNCHANGED <<ticks, breaker, cache, tasks, h_streak, h_lastFail, h_calls, handlerVars>>
    /\ UNCHANGED unitVars

(* the process is idle until t, no request arriving *)
IdleUntil(t) ==
    /\ phase = "idle" /\ ticks < MaxTicks
    /\ t \in IdleTargets
    /\ t > now
    /\ now' = t
    /\ ticks' = ticks + 1
    /\ UNCHANGED <<breaker, cache, tasks, h_streak, h_lastFail, h_calls, handlerVars>>
    /\ UNCHANGED unitVars

---------------------------------------------------------------------------
(* Variant 1: the loop of createReviewData (mode "notion", and "run" for   *)
(* the scheduled run), createReviewDataWithWebsiteRefresh ("website") and  *)
(* createReviewDataWithAIRefresh ("ai").  The recipes are processed one    *)
(* after the other: tasks holds the recipes begun so far, results the      *)
(* local reviewItems.                                                      *)

processedRecipes1(recipes) == slice0(recipes, MAX_RECIPES_PER_BATCH1)

(* analyzeRecipeWithAI up to its await of fetch(): there is no guard and no cache *)
analyzeStart1(task) == [task EXCEPT !.pc = "awaitAI", !.dispatched = TRUE]

(* extractRecipeFromURL up to its first await, or to `if (!url) return null` *)
extractStart1(task) ==
    IF task.recipe.link = ""
    THEN analyzeStart1([task EXCEPT !.scraped = "null", !.extracted = None])
    ELSE [task EXCEPT !.pc = "fetch", !.fetches = 1]

(* the body of the loop up to its first await *)
startRecipe1(recipe, m) ==
    IF m \in {"notion", "run"}
    THEN [newTask(recipe) EXCEPT !.pc = "content"]
    ELSE extractStart1(newTask(recipe))

(* filterExtractedData keeps title, images and imageUrl; it reads           *)
(* extractedData.title, so it throws a TypeError when extractedData is null *)
filterExtractedDataThrows(extractedData) == extractedData = None

filterExtractedData(extractedData) == [extractedData[1] EXCEPT !.ingredients = <<>>]

(* createReviewData returns to its caller: the handler responds, run() mails *)
Return1 ==
    IF mode = "run"
    THEN phase' = "email" /\ UNCHANGED response
    ELSE phase' = "idle" /\ response' = Some(Respond(200))

(* the loop after the recipes ts: the next recipe is begun, or the list returned *)
Continue1(ts) ==
    IF Len(ts) < Len(processedRecipes1(candidates))
    THEN /\ tasks' = Append(ts, startRecipe1(processedRecipes1(candidates)[Len(ts) + 1], mode))
         /\ UNCHANGED <<phase, response>>
    ELSE /\ tasks' = ts
         /\ Return1

loopFrame == <<variant, mode, now, ticks, hasKey, breaker, cache, store, h_store, timer, post,
               requests, candidates, h_streak, h_lastFail, h_calls>>

(* task i stays suspended, at pc *)
Suspend1(i, task) ==
    /\ tasks' = [tasks EXCEPT ![i] = task]
    /\ UNCHANGED <<phase, response, results>>
    /\ UNCHANGED loopFrame
    /\ UNCHANGED unitVars

(* analyzeRecipeWithAI returned for task i: the rest of the loop body.      *)
(* The refresh modes pass extractedData to filterExtractedData unguarded.   *)
Classified1(i, task) ==
    IF mode \in {"notion", "run"}
    THEN /\ results' = (IF task.analysis # None
                        THEN Append(results, reviewItem(task,
                                 IF task.extracted # None
                                 THEN Some(filterExtractedData(task.extracted)) ELSE None,
                                 formatSuggestedChanges1(task.recipe, task.analysis[1],
                                                         task.extracted)))
                        ELSE results)
         /\ tasks' = [tasks EXCEPT ![i] = [task EXCEPT !.pc = "sleep",
                                               !.wake = Some(now + RATE_LIMIT_MS)]]
         /\ UNCHANGED <<phase, response>>
         /\ UNCHANGED <<variant, mode, ticks, hasKey, breaker, cache, store, h_store, timer,
                        post, requests, candidates, h_streak, h_lastFail, h_calls, now>>
         /\ UNCHANGED unitVars
    ELSE IF task.analysis # None /\ filterExtractedDataThrows(task.extracted)
    THEN /\ tasks' = [tasks EXCEPT ![i] = [task EXCEPT !.pc = "threw"]]
         /\ results' = <<>>
         /\ phase' = "idle"
         /\ response' = Some(Respond(500))
         /\ UNCHANGED loopFrame
         /\ UNCHANGED unitVars
    ELSE /\ results' = (IF task.analysis # None
                        THEN Append(results, reviewItem(task,
                                 Some(filterExtractedData(task.extracted)),
                                 formatSuggestedChanges1(task.recipe, task.analysis[1], None)))
                        ELSE results)
         /\ Continue1([tasks EXCEPT ![i] = [task EXCEPT !.pc = "done"]])
         /\ UNCHANGED loopFrame
         /\ UNCHANGED unitVars

Awaiting1(i, pcs) ==
    /\ variant = 1 /\ phase = "running"
    /\ i = Len(tasks) /\ i > 0
    /\ tasks[i].pc \in pcs

(* loadPageContent returns: the page's blocks, or null when the call fails. *)
(* needsDataExtraction asks for scraping only in the second case.           *)
ContentLoads1(i, ok) ==
    /\ Awaiting1(i, {"content"})
    /\ ok \in BOOLEAN
    /\ Suspend1(i, IF ok THEN analyzeStart1(tasks[i]) ELSE extractStart1(tasks[i]))

(* the page fetch settles *)
PageFetchSettles1(i, kind) ==
    /\ Awaiting1(i, {"fetch"})
    /\ kind \in {"reject", "non2xx", "ok"}
    /\ Suspend1(i, IF kind = "ok" THEN [tasks[i] EXCEPT !.pc = "body"]
                   ELSE analyzeStart1([tasks[i] EXCEPT !.scraped = "null"]))

(* response.text() settles: it rejects, or the page is parsed *)
PageBodyArrives1(i, ok) ==
    /\ Awaiting1(i, {"body"})
    /\ ok \in BOOLEAN
    /\ Suspend1(i, IF ok
                   THEN analyzeStart1([tasks[i] EXCEPT !.scraped = "data",
                            !.extracted = IF mode \in {"notion", "run"}
                                          THEN Some(filterExtractedData(Some(PageData)))
                                          ELSE Some(PageData)])
                   ELSE analyzeStart1([tasks[i] EXCEPT !.scraped = "null"]))

(* the AI call rejects or answers with a status that is not 2xx: null *)
AiCallFails1(i, kind) ==
    /\ Awaiting1(i, {"awaitAI"})
    /\ kind \in {"reject", "non2xx"}
    /\ Classified1(i, [tasks[i] EXCEPT !.analysis =
           analysisOfOutcome1(tasks[i].recipe, tasks[i].extracted,
                              [kind |-> kind, data |-> None])])

(* the AI call answers 2xx: the callback awaits response.json() *)
AiCallResponds1(i) ==
    /\ Awaiting1(i, {"awaitAI"})
    /\ Suspend1(i, [tasks[i] EXCEPT !.pc = "awaitBody"])

(* response.json() settles *)
AiBodyArrives1(i, kind, data) ==
    /\ Awaiting1(i, {"awaitBody"})
    /\ kind \in {"badbody", "empty", "unparseable", "object"}
    /\ Classified1(i, [tasks[i] EXCEPT !.analysis =
           analysisOfOutcome1(tasks[i].recipe, tasks[i].extracted,
                              [kind |-> kind, data |-> data])])

(* the pause after a recipe ends *)
SleepEnds1(i) ==
    /\ Awaiting1(i, {"sleep"})
    /\ now = tasks[i].wake[1]
    /\ Continue1([tasks EXCEPT ![i] = [tasks[i] EXCEPT !.pc = "done", !.wake = None]])
    /\ UNCHANGED results
    /\ UNCHANGED loopFrame
    /\ UNCHANGED unitVars

---------------------------------------------------------------------------
(* Variant 1: the handler and run() *)

(* a GET with ?refresh=m arrives, or a POST without action (m = "run"):     *)
(* getIncompleteRecipes queries the database                                *)
Request1(m) ==
    /\ variant = 1 /\ phase = "idle" /\ requests < RequestLimit
    /\ m \in {"notion", "website", "ai", "run"}
    /\ requests' = requests + 1
    /\ mode' = m
    /\ phase' = "query"
    /\ timer' = None
    /\ h_store' = store
    /\ candidates' = <<>> /\ tasks' = <<>> /\ results' = <<>> /\ response' = None
    /\ post' = None
    /\ UNCHANGED <<variant, now, ticks, hasKey, breaker, cache, store, h_streak, h_lastFail, h_calls>>
    /\ UNCHANGED unitVars

(* the query settles; getIncompleteRecipes returns [] when it failed *)
QuerySettles1(ok) ==
    /\ variant = 1 /\ phase = "query"
    /\ ok \in BOOLEAN
    /\ candidates' = (IF ok THEN getIncompleteRecipes(store) ELSE <<>>)
    /\ IF candidates' = <<>>
       THEN /\ tasks' = <<>>
            /\ Return1
       ELSE /\ tasks' = <<startRecipe1(processedRecipes1(candidates')[1], mode)>>
            /\ phase' = "running"
            /\ UNCHANGED response
    /\ UNCHANGED <<variant, mode, now, ticks, hasKey, breaker, cache, store, h_store, timer,
                   post, requests, results, h_streak, h_lastFail, h_calls>>
    /\ UNCHANGED unitVars

(* sendMail settles; sendEmailNotification catches its failure.  run()      *)
(* returns the summary, or nothing when there was no recipe, and the        *)
(* handler answers with what it returned.                                   *)
EmailSettles1 ==
    /\ variant = 1 /\ phase = "email"
    /\ phase' = "idle"
    /\ response' = Some(RunResponse(IF Len(candidates) = 0 THEN None
                                    ELSE Some(Summary(Len(results), Len(candidates)))))
    /\ UNCHANGED <<variant, mode, now, ticks, hasKey, breaker, cache, store, h_store, timer,
                   post, requests, candidates, tasks, results, h_streak, h_lastFail, h_calls>>
    /\ UNCHANGED unitVars

---------------------------------------------------------------------------
(* The pipeline as a state machine *)

Init ==
    /\ UnitOff
    /\ TitleOff
    /\ RetryOff
    /\ KeysOff
    /\ variant \in {0, 1}
    /\ hasKey \in (IF variant = 0 THEN BOOLEAN ELSE {TRUE})
    /\ mode = "none" /\ now = 0 /\ ticks = 0
    /\ breaker = [failures |-> 0, lastFailTime |-> None]
    /\ cache = [k \in {} |-> None]
    /\ store \in InitialStores
    /\ h_store = store
    /\ phase = "idle" /\ timer = None /\ post = None
    /\ requests = 0 /\ candidates = <<>> /\ tasks = <<>> /\ results = <<>>
    /\ response = None /\ h_streak = 0 /\ h_lastFail = None /\ h_calls = 0

Next ==
    \/ \E m \in RefreshDrawn0 : GetRequest0(m)
    \/ QueryReturns0
    \/ \E kind \in {"reject", "timeout"} : QueryFails0(kind)
    \/ \E i \in 1..MaxTasks :
        \/ \E kind \in {"reject", "non2xx"} : AiCallFails0(i, kind)
        \/ AiCallTimesOut0(i)
        \/ AiCallResponds0(i)
        \/ \E kind \in {"badbody", "empty", "unparseable", "nonobject"} :
              AiBodyArrives0(i, kind, None)
        \/ \E data \in AiObjects : AiBodyArrives0(i, "object", data)
        \/ \E kind \in {"reject", "resolve"} : ScrapeAttemptEnds0(i, kind)
        \/ BackoffEnds0(i)
        \/ ScrapeTimesOut0(i)
    \/ JoinBatch0
    \/ \E recipeId \in RecipeIds, updates \in UpdateRequests : PostRequest(recipeId, updates)
    \/ PostOther0
    \/ CoverUpdateReturns
    \/ PropsUpdateReturns
    \/ UpdateFails
    \/ PropsUpdateTimesOut0
    \/ \E m \in {"notion", "website", "ai", "run"} : Request1(m)
    \/ \E ok \in BOOLEAN : QuerySettles1(ok)
    \/ \E i \in 1..MaxTasks :
        \/ \E ok \in BOOLEAN : ContentLoads1(i, ok)
        \/ \E kind \in {"reject", "non2xx", "ok"} : PageFetchSettles1(i, kind)
        \/ \E ok \in BOOLEAN : PageBodyArrives1(i, ok)
        \/ \E kind \in {"reject", "non2xx"} : AiCallFails1(i, kind)
        \/ AiCallResponds1(i)
        \/ \E kind \in {"badbody", "empty", "unparseable"} : AiBodyArrives1(i, kind, None)
        \/ \E data \in AiObjects : AiBodyArrives1(i, "object", data)
        \/ SleepEnds1(i)
    \/ EmailSettles1
    \/ AdvanceToTimer
    \/ \E t \in IdleTargets : IdleUntil(t)

Spec == Init /\ [][Next]_vars


---------------------------------------------------------------------------
(* Properties of the classifiers and the diff (SpecUnit) *)

(* the categorical fields of a recipe that already hold a value *)
FilledFields(recipe) ==
    (IF TruthyStr(recipe.current_meal) THEN {"meal"} ELSE {})
    \cup (IF TruthyStr(recipe.current_cuisine) THEN {"cuisine"} ELSE {})
    \cup (IF Len(recipe.current_tags) > 0 THEN {"tags"} ELSE {})
    \cup (IF Len(recipe.current_ingredients) > 0 THEN {"key_ingredients"} ELSE {})

(* the categorical fields a Classification Result proposes a value for *)
ProposedFields(analysis) ==
    (IF TruthyStr(analysis.meal) THEN {"meal"} ELSE {})
    \cup (IF TruthyStr(analysis.cuisine) THEN {"cuisine"} ELSE {})
    \cup (IF analysis.tags # None /\ Len(analysis.tags[1]) > 0 THEN {"tags"} ELSE {})
    \cup (IF analysis.key_ingredients # None /\ Len(analysis.key_ingredients[1]) > 0
          THEN {"key_ingredients"} ELSE {})

(* C1: whatever the classifier output (live AI response, cached analysis,   *)
(* fallback result), the Suggested Change Set has no entry for a            *)
(* categorical field of the recipe that is already non-empty.               *)
C1_NeverOverwrite ==
    u_stage = "diffed" =>
        FilledFields(u_recipe[1]) \cap DOMAIN u_changes[1] = {}

(* C1's case: the classifier proposed a value for a field that is filled *)
C1_Witness ==
    /\ u_stage = "diffed"
    /\ u_source \in {"ai", "cache"}
    /\ FilledFields(u_recipe[1]) \cap ProposedFields(u_analysis[1]) # {}
    /\ DOMAIN u_changes[1] # {}

(* every categorical value of a Classification Result is null or in its vocabulary *)
InVocabulary(analysis) ==
    /\ analysis.meal = None \/ analysis.meal[1] \in Range(MEAL_OPTIONS)
    /\ analysis.cuisine = None \/ analysis.cuisine[1] \in Range(CUISINE_OPTIONS)
    /\ analysis.tags = None \/ Range(analysis.tags[1]) \subseteq Range(TAG_OPTIONS)
    /\ analysis.key_ingredients = None
       \/ Range(analysis.key_ingredients[1]) \subseteq Range(INGREDIENT_OPTIONS)

(* C2: every Classification Result handed to the orchestrator, from a live  *)
(* AI response, from the AI cache or from the fallback, holds only values   *)
(* of the vocabularies (or null), whatever the model response contained.    *)
C2_VocabularyClosure ==
    (u_stage \in {"classified", "diffed"} /\ u_analysis # None) =>
        InVocabulary(u_analysis[1])

(* C14: the Fallback Classifier, called with absent or empty extracted     *)
(* data, returns a Classification Result whose meal type is non-null and   *)
(* in the meal vocabulary and whose confidence lies in [0,1] (0..100 %),   *)
(* whatever the recipe's name and current field values.                    *)
C14_FallbackWellFormed ==
    (/\ u_stage \in {"classified", "diffed"}
     /\ u_source = "fallback"
     /\ (u_extracted = None \/ Len(u_extracted[1].ingredients) = 0)) =>
        /\ u_analysis # None
        /\ u_analysis[1].meal # None
        /\ u_analysis[1].meal[1] \in Range(MEAL_OPTIONS)
        /\ u_analysis[1].confidence \in 0..100

(* C18: an AI response whose content is a JSON object wrapped in a code   *)
(* fence, with or without the json tag, is unwrapped before parsing: the   *)
(* classification returned is the parsed object (validated in variant 1),  *)
(* not the fallback's result and not null.                                 *)
C18_FencedResponseParsed ==
    (u_stage \in {"classified", "diffed"} /\ u_source \in ContentForms) =>
        u_analysis = (IF u_variant = "v0" THEN u_raw
                      ELSE Some(validateAnalysis(u_raw[1], u_recipe[1])))

(* the recipe's current value of a field of the change set is empty; the   *)
(* recipe record holds no image                                            *)
CurrentEmpty(recipe, field) ==
    CASE field = "title" -> ~TruthyChars(recipe.name)
      [] field = "meal" -> ~TruthyStr(recipe.current_meal)
      [] field = "cuisine" -> ~TruthyStr(recipe.current_cuisine)
      [] field = "tags" -> Len(recipe.current_tags) = 0
      [] field = "key_ingredients" -> Len(recipe.current_ingredients) = 0
      [] OTHER -> TRUE

(* C19: every entry of a Suggested Change Set, the title entry included,   *)
(* is for a field whose current value in the recipe is empty, and its      *)
(* suggested value is non-null.                                            *)
C19_EntriesOnlyForEmptyFields ==
    u_stage = "diffed" =>
        \A f \in DOMAIN u_changes[1] :
            /\ CurrentEmpty(u_recipe[1], f)
            /\ u_changes[1][f].suggested # None

---------------------------------------------------------------------------
(* Properties of title standardization (SpecTitle) *)

(* C15: standardizeTitle is idempotent: applied to its own result it       *)
(* returns that result.                                                    *)
C15_StandardizeIdempotent ==
    t_stage = "twice" => t_twice = t_once

---------------------------------------------------------------------------
(* Properties of the pipeline (Spec) *)

(* the recipes one invocation processes *)
Processed ==
    IF variant = 0 THEN processedRecipes0(candidates) ELSE processedRecipes1(candidates)

(* the request was answered *)
Answered == phase = "idle" /\ response # None

(* the result list has an item for the recipe of task i *)
HasItem(i) == \E k \in 1..Len(results) : results[k].id = tasks[i].recipe.id

(* the Fallback Classifier's result for task t *)
FallbackOf(t) == Some(createSmartFallbackAnalysis(t.recipe, t.extracted))

(* C11: a forced refresh bypasses the cache of the stage it names: with   *)
(* refresh=website every processed recipe that has a source URL triggers a *)
(* page fetch, and with refresh=ai every processed recipe triggers an AI   *)
(* call (the key set and the breaker permitting), whatever is cached.      *)
C11_ForcedRefreshBypassesCache ==
    \A i \in 1..Len(tasks) :
        /\ (mode = "website" /\ tasks[i].recipe.link # "") => tasks[i].fetches >= 1
        /\ (/\ mode = "ai"
            /\ tasks[i].pc \in {"awaitAI", "awaitBody", "sleep", "done", "threw"}
            /\ hasKey
            /\ tasks[i].h_start # "open") => tasks[i].dispatched

(* an updateRecipe request the validation is to reject *)
InvalidUpdate(p) ==
    validateRecipeIdThrows(p.recipeId) \/ ~(DOMAIN p.raw \subseteq allowedFields)

(* C12: an updateRecipe request with an invalid recipe id or with an       *)
(* update field outside the allow-list is answered with a 4xx status, and  *)
(* no update of the record store is issued for it.                         *)
C12_InvalidUpdateRejected ==
    (mode = "post" /\ post # None /\ InvalidUpdate(post[1])) =>
        /\ phase \notin {"cover", "props"}
        /\ store = h_store
        /\ Answered => response[1].status \in 400..499

(* C13: a POST without a recognized action runs the full pipeline and,     *)
(* the run completing without error (also when no recipe is incomplete),   *)
(* is answered 200 with the summary {success, processed, total}.           *)
C13_RunAnswersSummary ==
    (mode = "run" /\ Answered) =>
        response = Some(RunResponse(Some(Summary(Len(results), Len(candidates)))))

(* C3: after threshold-many (3) consecutive recorded AI-call failures, a    *)
(* classification call that starts within the reset window of the last     *)
(* failure dispatches no AI call and returns the fallback's result.         *)
C3_OpenBreakerBypasses ==
    \A i \in 1..Len(tasks) :
        (variant = 0 /\ tasks[i].h_start = "open") =>
            /\ ~tasks[i].dispatched
            /\ tasks[i].pc = "done"
            /\ tasks[i].analysis = FallbackOf(tasks[i])

(* C3's case: a call started in the last ms of the window, after three failures *)
C3_Witness ==
    /\ variant = 0 /\ phase = "running" /\ hasKey
    /\ h_streak = threshold
    /\ h_lastFail # None /\ now = h_lastFail[1] + resetTime - 1
    /\ \E i \in 1..Len(tasks) : tasks[i].h_start = "open" /\ tasks[i].pc = "done"

(* C4: once the reset window has elapsed since the last recorded failure,   *)
(* a classification call for a recipe with no fresh cached analysis         *)
(* dispatches the AI call again.                                            *)
C4_ElapsedWindowDispatches ==
    \A i \in 1..Len(tasks) :
        (variant = 0 /\ tasks[i].h_start = "elapsed" /\ ~tasks[i].h_fresh) =>
            tasks[i].dispatched

(* C4's case: three failures, the window elapsed, the call is dispatched again *)
C4_Witness ==
    /\ variant = 0 /\ phase = "running"
    /\ breaker.failures >= threshold
    /\ \E i \in 1..Len(tasks) :
          /\ tasks[i].h_start = "elapsed" /\ ~tasks[i].h_fresh
          /\ tasks[i].pc = "awaitAI"
          /\ tasks[i].deadline = Some(now + AI_TIMEOUT_MS)

(* C5: when a dispatched AI call fails by timeout, non-2xx status or empty  *)
(* content, the failure count grows by exactly one and the call returns the *)
(* fallback's result (neither an exception nor null).                       *)
C5_FailureFallsBack ==
    [][\A i \in 1..MaxTasks :
          (\/ AiCallFails0(i, "non2xx") \/ AiCallTimesOut0(i)
           \/ AiBodyArrives0(i, "empty", None)
           \/ AiCallFails1(i, "non2xx") \/ AiBodyArrives1(i, "empty", None))
          => /\ breaker'.failures = breaker.failures + 1
             /\ tasks'[i].analysis = FallbackOf(tasks[i])]_vars

(* C6: when the processing of one recipe throws, the batch still completes  *)
(* and returns an item for every other recipe of the batch.                 *)
C6_FailureIsolated ==
    (phase = "idle" /\ \E i \in 1..Len(tasks) : tasks[i].pc = "threw") =>
        /\ response = Some(Respond(200))
        /\ Len(tasks) = Len(Processed)
        /\ \A j \in 1..Len(tasks) : tasks[j].pc = "done" => HasItem(j)

(* C7: in every refresh mode, a recipe for which the Page Extractor         *)
(* returned null is still classified and, once classified, is in the result *)
(* list; the remaining recipes of the batch are processed.                  *)
C7_NullExtractionContinues ==
    \A i \in 1..Len(tasks) :
        (tasks[i].scraped = "null" /\ tasks[i].analysis # None /\ phase = "idle") =>
            /\ HasItem(i)
            /\ Len(tasks) = Len(Processed)

(* C8: handling a GET in any refresh mode, and the scheduled run, leave the *)
(* record store as it was when the request arrived; the store changes only  *)
(* in the page updates of an updateRecipe request.                          *)
C8_EnrichmentReadsOnly ==
    /\ [](mode \in {"notion", "website", "ai", "run"} => store = h_store)
    /\ [][store' # store => (mode = "post" /\ phase \in {"cover", "props"})]_vars

(* C8's case: a run answered with suggestions for a record *)
C8_Witness ==
    /\ mode \in {"notion", "website", "ai", "run"}
    /\ Answered /\ response = Some(Respond(200))
    /\ \E k \in 1..Len(results) : "meal" \in DOMAIN results[k].suggestedChanges
    /\ store = h_store

(* C9: one invocation begins a callback (and with it page fetches and AI    *)
(* calls) only for the first MAX_RECIPES_PER_BATCH candidates, and the      *)
(* result list has at most that many items.                                 *)
C9_BatchBound ==
    /\ Len(tasks) <= (IF variant = 0 THEN MAX_RECIPES_PER_BATCH0 ELSE MAX_RECIPES_PER_BATCH1)
    /\ Len(results) <= (IF variant = 0 THEN MAX_RECIPES_PER_BATCH0 ELSE MAX_RECIPES_PER_BATCH1)
    /\ Len(tasks) <= Len(candidates)
    /\ \A i \in 1..Len(tasks) : tasks[i].recipe = candidates[i]

(* C9's case: more candidates than the bound, every processed one in the result *)
C9_Witness ==
    /\ Answered
    /\ Len(candidates) > Len(Processed)
    /\ Len(results) = Len(Processed)
    /\ \E i \in 1..Len(tasks) : tasks[i].dispatched

(* C10: every external call awaited while a request is handled has a timer  *)
(* armed (withTimeout), so that the handler answers even if the call never  *)
(* returns.                                                                 *)
C10_EveryCallTimed ==
    variant = 0 =>
        /\ phase \in {"query", "cover", "props"} => timer # None
        /\ \A i \in 1..Len(tasks) :
              (phase = "running" /\ tasks[i].pc \in {"fetch1", "fetch2", "awaitAI", "awaitBody"})
                  => tasks[i].deadline # None

(* C16: a successful AI call resets the breaker's failure count to 0 and    *)
(* clears its last-failure time, so the count is always the number of       *)
(* failures since the last success and the breaker is open only after       *)
(* threshold failures with no success in between.                           *)
C16_SuccessResetsBreaker ==
    /\ [](variant = 0 => (breaker.failures = h_streak /\ breaker.lastFailTime = h_lastFail))
    /\ [](isOpen(breaker, now) => h_streak >= threshold)
    /\ [][\A i \in 1..MaxTasks : \A data \in AiObjects :
            AiBodyArrives0(i, "object", data) =>
                breaker' = [failures |-> 0, lastFailTime |-> None]]_vars

(* C16's case: two calls of a batch failed, then a third succeeded *)
C16_Witness ==
    /\ variant = 0 /\ phase = "running"
    /\ breaker = [failures |-> 0, lastFailTime |-> None]
    /\ \E i, j, k \in 1..Len(tasks) :
          /\ i # j
          /\ tasks[i].h_outcome = "failure" /\ tasks[j].h_outcome = "failure"
          /\ tasks[k].h_outcome = "success"

(* C17: a cached analysis is served, with no call, only while its age is    *)
(* less than the TTL; at or after the TTL the call is made again and its    *)
(* success overwrites the entry; no step removes a key of the cache.        *)
C17_CacheServedWithinTTL ==
    /\ [](\A i \in 1..Len(tasks) :
            (/\ variant = 0 /\ hasKey
             /\ tasks[i].h_start # "open"
             /\ tasks[i].h_age # None) =>
                IF tasks[i].h_age[1] < CACHE_TTL_MS
                THEN /\ ~tasks[i].dispatched
                     /\ tasks[i].pc = "done"
                     /\ tasks[i].analysis = Some(cache[aiCacheKey(tasks[i].recipe)].data)
                ELSE tasks[i].dispatched)
    /\ [][DOMAIN cache \subseteq DOMAIN cache']_vars
    /\ [][\A i \in 1..MaxTasks : \A data \in AiObjects :
            AiBodyArrives0(i, "object", data) =>
                cache'[aiCacheKey(tasks[i].recipe)] = [data |-> data, timestamp |-> now]]_vars

(* C17's case: in one batch an entry as old as the TTL was fetched again    *)
(* and overwritten, and a younger one was served                            *)
C17_Witness ==
    /\ variant = 0 /\ phase = "running"
    /\ \E i, j \in 1..Len(tasks) :
          /\ tasks[i].h_age # None /\ tasks[i].h_age[1] >= CACHE_TTL_MS
          /\ tasks[i].dispatched /\ tasks[i].h_outcome = "success"
          /\ cache[aiCacheKey(tasks[i].recipe)].timestamp = now
          /\ tasks[j].h_age # None /\ tasks[j].h_age[1] < CACHE_TTL_MS
          /\ ~tasks[j].dispatched /\ tasks[j].pc = "done"

(* C20: an AI response whose content is no JSON makes the classification    *)
(* return the Fallback Classifier's result, and leaves the breaker and the  *)
(* cache as they were.                                                      *)
C20_UnparseableIsSoft ==
    [][\A i \in 1..MaxTasks :
          (AiBodyArrives0(i, "unparseable", None) \/ AiBodyArrives1(i, "unparseable", None))
          => /\ tasks'[i].analysis = FallbackOf(tasks[i])
             /\ breaker' = breaker
             /\ cache' = cache]_vars

---------------------------------------------------------------------------
(* Properties of withRetry (SpecRetry) *)

(* C21: withRetry waits after a failed attempt and tries again, the wait   *)
(* doubling after each failure (1 s, 2 s, ...); after a first failure it    *)
(* makes a further attempt, and with the default cap at most MAX_RETRIES    *)
(* attempts in all; it returns the result of the first attempt that         *)
(* succeeds and makes no attempt after a success; after the last attempt    *)
(* fails it rethrows that attempt's error, which the extractor turns into   *)
(* null.                                                                    *)
C21_RetryWithBackoff ==
    retry # None =>
        LET r == retry[1]
            n == Len(r.calls)
        IN  /\ n <= r.maxRetries
            /\ r.maxRetries = MAX_RETRIES => n <= MAX_RETRIES
            /\ \A k \in 1..Len(r.waits) : r.waits[k] = RETRY_DELAY_MS * 2^(k - 1)
            /\ \A k \in 1..n : r.calls[k].attempt = k
            /\ \A k \in 2..n : /\ ~r.calls[k - 1].ok
                               /\ r.calls[k].from = r.calls[k - 1].to + r.waits[k - 1]
            /\ r.pc = "wait" => r.wake = Some(r.calls[n].to + RETRY_DELAY_MS * 2^(n - 1))
            /\ (r.pc \in {"returned", "threw"} /\ ~r.calls[1].ok) => n >= 2
            /\ r.pc = "returned" =>
                  /\ r.calls[n].ok
                  /\ r.outcome = Some([kind |-> "result", attempt |-> n])
            /\ r.pc = "threw" =>
                  /\ n = r.maxRetries
                  /\ \A k \in 1..n : ~r.calls[k].ok
                  /\ r.outcome = Some([kind |-> "error", attempt |-> n])
                  /\ r.extracted = "null"

(* C21's case: with the default cap the first attempt failed, 1 s passed,  *)
(* the second failed too and its error became null                         *)
C21_Witness ==
    /\ retry # None
    /\ retry[1].maxRetries = MAX_RETRIES
    /\ retry[1].pc = "threw"
    /\ Len(retry[1].calls) = MAX_RETRIES
    /\ retry[1].waits = <<RETRY_DELAY_MS>>
    /\ retry[1].extracted = "null"

---------------------------------------------------------------------------
(* Properties of extractKeyIngredientsFromList (SpecKeys) *)

(* the ingredient name is one the line matches *)
LineMatches(line, name) ==
    \E k \in 1..Len(ingredientMapping) :
        /\ findIngredientOption(ingredientMapping[k].key) = Some(name)
        /\ \E p \in ingredientMapping[k].patterns : includes(toLowerCase(line), p)

(* the first line of the list that matches the name *)
FirstMatch(list, name) ==
    CHOOSE i \in 1..Len(list) :
        LineMatches(list[i], name) /\ \A j \in 1..(i - 1) : ~LineMatches(list[j], name)

(* C22: for every list of extracted ingredient strings, the fallback key-   *)
(* ingredient result has at most 5 names, no duplicates, only members of    *)
(* the ingredient vocabulary, depends only on the first 10 strings, and     *)
(* lists the names in order of first match.                                 *)
C22_KeyIngredientsBounded ==
    (keyrun # None /\ keyrun[1].stage = "done") =>
        LET list == keyrun[1].list
            names == IF keyrun[1].result = None THEN <<>> ELSE keyrun[1].result[1]
        IN  /\ Len(names) <= 5
            /\ \A i, j \in 1..Len(names) : names[i] = names[j] => i = j
            /\ \A i \in 1..Len(names) : names[i] \in Range(INGREDIENT_OPTIONS)
            /\ keyrun[1].result = extractKeyIngredientsFromList(slice0(list, 10))
            /\ \A i, j \in 1..Len(names) :
                  i < j => FirstMatch(slice0(list, 10), names[i])
                               <= FirstMatch(slice0(list, 10), names[j])

---------------------------------------------------------------------------
(* Properties of the pipeline (Spec), continued *)

(* the recipe 'Spicy Chicken Curry' with meal, cuisine, tags and key       *)
(* ingredients all empty                                                   *)
SpicyChickenCurry(recipe) ==
    /\ recipe.name = Some(<<"S", "p", "i", "c", "y", " ", "C", "h", "i", "c", "k", "e", "n", " ", "C", "u", "r", "r", "y">>)
    /\ recipe.current_meal = None /\ recipe.current_cuisine = None
    /\ recipe.current_tags = <<>> /\ recipe.current_ingredients = <<>>

(* the callback of task i ended with the Fallback Classifier's result *)
FellBack(i) ==
    /\ variant = 0 /\ tasks[i].pc = "done"
    /\ \/ ~tasks[i].dispatched /\ ~tasks[i].h_fresh
       \/ tasks[i].h_outcome \in {"failure", "soft"}

(* C23: for the recipe 'Spicy Chicken Curry' with every field empty and no *)
(* page data, the Fallback Classifier returns meal 'Main Dish', cuisine     *)
(* 'Indian', tags exactly ['Curry', 'Spicy'], key ingredients null and      *)
(* confidence 0.7, and the change set has exactly the entries meal,         *)
(* cuisine and tags.                                                        *)
C23_SpicyChickenCurry ==
    \A i \in 1..Len(tasks) :
        (FellBack(i) /\ SpicyChickenCurry(tasks[i].recipe) /\ tasks[i].extracted = None) =>
            /\ tasks[i].analysis[1].meal = Some("Main Dish")
            /\ tasks[i].analysis[1].cuisine = Some("Indian")
            /\ tasks[i].analysis[1].tags = Some(<<"Curry", "Spicy">>)
            /\ tasks[i].analysis[1].key_ingredients = None
            /\ tasks[i].analysis[1].confidence = 70
            /\ \A k \in 1..Len(results) :
                  results[k].id = tasks[i].recipe.id =>
                      /\ DOMAIN results[k].suggestedChanges = {"meal", "cuisine", "tags"}
                      /\ results[k].suggestedChanges["meal"].suggested = Some("Main Dish")
                      /\ results[k].suggestedChanges["cuisine"].suggested = Some("Indian")
                      /\ results[k].suggestedChanges["tags"].suggested = Some(<<"Curry", "Spicy">>)

(* C23's case: the request is answered with the fallback's item for the recipe *)
C23_Witness ==
    /\ Answered
    /\ \E i \in 1..Len(tasks) :
          /\ FellBack(i) /\ SpicyChickenCurry(tasks[i].recipe) /\ tasks[i].extracted = None
          /\ \E k \in 1..Len(results) :
                /\ results[k].id = tasks[i].recipe.id
                /\ DOMAIN results[k].suggestedChanges = {"meal", "cuisine", "tags"}

(* the Page Extractor found at least one candidate image for the item's recipe *)
ImageFound(item) ==
    /\ item.extractedData # None
    /\ item.extractedData[1].images # None
    /\ Len(item.extractedData[1].images[1]) >= 1

(* C24: a result item carries an image suggestion (the entry image, apart   *)
(* from the entries of the properties) whenever the Page Extractor found    *)
(* at least one candidate image for the recipe, in every refresh mode, and  *)
(* carries none when no image was extracted.                                *)
C24_ImageSuggested ==
    \A k \in 1..Len(results) :
        ImageFound(results[k]) <=> "image" \in DOMAIN results[k].suggestedChanges

(* C25: once the breaker has opened it stays open until the reset window    *)
(* has elapsed since the last failure: no outcome of an AI call closes it   *)
(* earlier, not even the late success of a call dispatched before it        *)
(* opened.                                                                  *)
C25_OpenUntilWindowElapsed ==
    [][(variant = 0 /\ isOpen(breaker, now)) =>
          \/ isOpen(breaker', now')
          \/ now' - breaker.lastFailTime[1] >= resetTime]_vars

(* C26: the elapse of the reset window does not clear the failure count:    *)
(* after the window, a single failure of a re-attempted AI call opens the   *)
(* breaker again at once, and only a successful AI call brings the count    *)
(* back to 0.                                                               *)
C26_WindowKeepsCount ==
    /\ [][now' # now => breaker' = breaker]_vars
    /\ [][(breaker.failures >= threshold /\ breaker'.failures > breaker.failures)
            => isOpen(breaker', now')]_vars
    /\ [][breaker'.failures < breaker.failures =>
            /\ breaker'.failures = 0
            /\ \E i \in 1..Len(tasks) :
                  /\ tasks[i].pc = "awaitBody"
                  /\ tasks'[i].pc = "done" /\ tasks'[i].h_outcome = "success"]_vars

(* C26's case: three failures, the window elapsed, and the first failure of *)
(* a call dispatched after it has opened the breaker again                  *)
C26_Witness ==
    /\ variant = 0 /\ phase = "running"
    /\ breaker.failures = threshold + 1
    /\ isOpen(breaker, now)
    /\ \E i \in 1..Len(tasks) :
          /\ tasks[i].h_start = "elapsed" /\ tasks[i].dispatched
          /\ tasks[i].h_outcome = "failure"

(* C27: every entry under an 'ai:' key is the parsed object of a           *)
(* successful AI response: a fallback result is never written to the cache *)
(* and so never served as a cached AI analysis.                            *)
C27_OnlyResponsesCached ==
    /\ [](\A k \in DOMAIN cache : k.op = "ai" => cache[k].data \in AiObjects)
    /\ [](\A i \in 1..Len(tasks) :
            (/\ variant = 0 /\ hasKey /\ tasks[i].pc = "done"
             /\ tasks[i].h_start # "open" /\ tasks[i].h_fresh) =>
                /\ tasks[i].analysis[1] \in AiObjects
                /\ tasks[i].analysis # FallbackOf(tasks[i]))
    /\ [][cache' # cache =>
            \E i \in 1..Len(tasks) :
                /\ tasks[i].pc = "awaitBody"
                /\ tasks'[i].h_outcome = "success"
                /\ cache' = cacheSet(cache, aiCacheKey(tasks[i].recipe),
                                     tasks'[i].analysis[1], now)]_vars

(* C27's case: in one batch a recipe is served its cached AI analysis      *)
(* while another got the fallback's result, which is not in the cache      *)
C27_Witness ==
    /\ variant = 0 /\ hasKey
    /\ \E i, j \in 1..Len(tasks) :
          /\ tasks[i].pc = "done" /\ tasks[i].h_start # "open" /\ tasks[i].h_fresh
          /\ ~tasks[i].dispatched
          /\ FellBack(j)
          /\ aiCacheKey(tasks[j].recipe) \notin DOMAIN cache

(* where the recipe with this id stands in the candidate list *)
CandidateIndex(id) == CHOOSE p \in 1..Len(candidates) : candidates[p].id = id

(* C28: the result list has at most one item per processed recipe and lists *)
(* the items in the order of the candidate list, whatever order the         *)
(* extractions and classifications of the batch complete in.                *)
C28_ResultsInCandidateOrder ==
    /\ \A k \in 1..Len(results) :
          \E i \in 1..Len(tasks) : tasks[i].recipe.id = results[k].id
    /\ \A k, l \in 1..Len(results) :
          k < l => CandidateIndex(results[k].id) < CandidateIndex(results[l].id)

(* C28's case: of two recipes of a concurrent batch the later one was       *)
(* classified first (its cache entry is the older), and the items stand in  *)
(* candidate order                                                          *)
C28_Witness ==
    /\ variant = 0 /\ Answered
    /\ \E i, j \in 1..Len(tasks) :
          /\ i < j
          /\ tasks[i].h_outcome = "success" /\ tasks[j].h_outcome = "success"
          /\ cache[aiCacheKey(tasks[j].recipe)].timestamp
                < cache[aiCacheKey(tasks[i].recipe)].timestamp
          /\ \E k, l \in 1..Len(results) :
                /\ k < l
                /\ results[k].id = tasks[i].recipe.id
                /\ results[l].id = tasks[j].recipe.id


(* C29: a POST updateRecipe request answered with a failure has applied no  *)
(* part of its update: the record store is as it was when the request      *)
(* arrived, so the cover and the properties of one request are written     *)
(* both or neither.                                                         *)
C29_FailedUpdateAppliesNothing ==
    (mode = "post" /\ post # None /\ Answered /\ response[1].status >= 400) =>
        store = h_store


(* C30: when the fetch of a non-empty URL resolves within the timeout,      *)
(* extractRecipeFromURL returns extracted page data (not null) and stores   *)
(* it under the 'scrape:' + URL key, fresh at that moment, so that a       *)
(* second extraction within the TTL is served from the cache.               *)
C30_ExtractionReturnsAndCaches ==
    [][\A i \in 1..Len(tasks) :
          (/\ variant = 0
           /\ tasks[i].pc \in {"fetch1", "fetch2"}
           /\ ScrapeAttemptEnds0(i, "resolve")) =>
              /\ tasks'[i].scraped = "data"
              /\ tasks'[i].extracted # None
              /\ cacheFresh(cache', scrapeCacheKey(tasks[i].recipe.link), now')]_vars

====
